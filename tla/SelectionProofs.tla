---------------------------- MODULE SelectionProofs ----------------------------
(***************************************************************************)
(* Proofs about FallbackSelection for every snapshot, every pair of policies *)
(* and any number of substrates.                                            *)
(***************************************************************************)
EXTENDS FallbackSelection, FiniteSetTheorems, TLAPS

-----------------------------------------------------------------------------
(* The ranking is a strict total order. *)

(* Every part of a key is a number. *)
RankedIds(snapshot) ==
  {id \in DOMAIN snapshot.substrates :
     /\ id \in SubstrateId
     /\ snapshot.substrates[id].min_compute_units \in Nat
     /\ snapshot.substrates[id].min_memory_bytes \in Nat
     /\ snapshot.substrates[id].max_latency_ms \in Nat \cup {Absent}}

LEMMA RankKeyType ==
  ASSUME NEW snapshot, NEW id \in RankedIds(snapshot)
  PROVE  /\ RankKey(snapshot, id) \in [1..5 -> Int]
         /\ RankKey(snapshot, id)[5] = id
  <1> DEFINE s == snapshot.substrates[id]
             degraded == IF s.availability_state = "DEGRADED" THEN 1 ELSE 0
  <1>1. /\ s.min_compute_units \in Nat /\ s.min_memory_bytes \in Nat
        /\ s.max_latency_ms \in Nat \cup {Absent} /\ id \in SubstrateId
    BY DEF RankedIds
  <1>2. degraded \in {0, 1}
    OBVIOUS
  <1>3. RankKey(snapshot, id) =
          <<degraded, s.min_compute_units, s.min_memory_bytes, s.max_latency_ms, id>>
    BY DEF RankKey
  <1> HIDE DEF s, degraded
  <1>4. /\ s.min_compute_units \in Int /\ s.min_memory_bytes \in Int
        /\ s.max_latency_ms \in Int /\ id \in Int /\ degraded \in Int
    BY <1>1, <1>2, SubstrateIdAssumption DEF Absent
  <1>5. QED
    BY <1>3, <1>4

(* Comparing two keys is comparing their first difference. *)
LEMMA RanksBeforeIff ==
  ASSUME NEW snapshot, NEW a, NEW b, NEW x, NEW y,
         x = RankKey(snapshot, a), y = RankKey(snapshot, b)
  PROVE  RanksBefore(snapshot, a, b) <=>
           \/ x[1] < y[1]
           \/ x[1] = y[1] /\ x[2] < y[2]
           \/ x[1] = y[1] /\ x[2] = y[2] /\ x[3] < y[3]
           \/ x[1] = y[1] /\ x[2] = y[2] /\ x[3] = y[3] /\ x[4] < y[4]
           \/ x[1] = y[1] /\ x[2] = y[2] /\ x[3] = y[3] /\ x[4] = y[4] /\ x[5] < y[5]
  <1> DEFINE First(i) == x[i] < y[i] /\ \A j \in 1..(i - 1) : x[j] = y[j]
  <1>1. RanksBefore(snapshot, a, b) <=> \E i \in 1..5 : First(i)
    BY DEF RanksBefore
  <1>2. (\E i \in 1..5 : First(i)) <=> First(1) \/ First(2) \/ First(3) \/ First(4) \/ First(5)
    <2> HIDE DEF First
    <2>1. 1..5 = {1, 2, 3, 4, 5}
      OBVIOUS
    <2>2. QED
      BY <2>1, Zenon
  <1>3. /\ 1..(1 - 1) = {} /\ 1..(2 - 1) = {1} /\ 1..(3 - 1) = {1, 2}
        /\ 1..(4 - 1) = {1, 2, 3} /\ 1..(5 - 1) = {1, 2, 3, 4}
    OBVIOUS
  <1>4. /\ First(1) <=> x[1] < y[1]
        /\ First(2) <=> x[1] = y[1] /\ x[2] < y[2]
        /\ First(3) <=> x[1] = y[1] /\ x[2] = y[2] /\ x[3] < y[3]
        /\ First(4) <=> x[1] = y[1] /\ x[2] = y[2] /\ x[3] = y[3] /\ x[4] < y[4]
        /\ First(5) <=> x[1] = y[1] /\ x[2] = y[2] /\ x[3] = y[3] /\ x[4] = y[4] /\ x[5] < y[5]
    BY <1>3
  <1> HIDE DEF First
  <1>5. QED
    BY <1>1, <1>2, <1>4, Zenon

LEMMA RankingIsTotal ==
  ASSUME NEW snapshot, NEW a \in RankedIds(snapshot), NEW b \in RankedIds(snapshot)
  PROVE  /\ a # b => RanksBefore(snapshot, a, b) \/ RanksBefore(snapshot, b, a)
         /\ ~(RanksBefore(snapshot, a, b) /\ RanksBefore(snapshot, b, a))
         /\ ~RanksBefore(snapshot, a, a)
  <1>1. PICK x \in [1..5 -> Int] : x = RankKey(snapshot, a) /\ x[5] = a
    BY RankKeyType
  <1>2. PICK y \in [1..5 -> Int] : y = RankKey(snapshot, b) /\ y[5] = b
    BY RankKeyType
  <1>3. QED
    BY <1>1, <1>2, RanksBeforeIff

LEMMA RankingIsTransitive ==
  ASSUME NEW snapshot, NEW a \in RankedIds(snapshot), NEW b \in RankedIds(snapshot),
         NEW c \in RankedIds(snapshot),
         RanksBefore(snapshot, a, b), RanksBefore(snapshot, b, c)
  PROVE  RanksBefore(snapshot, a, c)
  <1>1. PICK x \in [1..5 -> Int] : x = RankKey(snapshot, a)
    BY RankKeyType
  <1>2. PICK y \in [1..5 -> Int] : y = RankKey(snapshot, b)
    BY RankKeyType
  <1>3. PICK z \in [1..5 -> Int] : z = RankKey(snapshot, c)
    BY RankKeyType
  <1>4. QED
    BY <1>1, <1>2, <1>3, RanksBeforeIff


-----------------------------------------------------------------------------
(* Cutting a ranked set of substrates. *)

(* How many of ids rank before id. *)
Rank(snapshot, ids, id) == Cardinality({o \in ids : RanksBefore(snapshot, o, id)})

LEMMA RankType ==
  ASSUME NEW snapshot, NEW ids, IsFiniteSet(ids), ids \subseteq RankedIds(snapshot),
         NEW id \in ids
  PROVE  Rank(snapshot, ids, id) \in 0..(Cardinality(ids) - 1)
  <1> DEFINE before == {o \in ids : RanksBefore(snapshot, o, id)}
  <1>1. IsFiniteSet(ids \ {id}) /\ Cardinality(ids \ {id}) = Cardinality(ids) - 1
    BY FS_RemoveElement
  <1>2. before \in SUBSET (ids \ {id})
    BY RankingIsTotal
  <1>3. IsFiniteSet(before) /\ Cardinality(before) <= Cardinality(ids \ {id})
    BY <1>1, <1>2, FS_Subset
  <1>4. Cardinality(before) \in Nat /\ Cardinality(ids) \in Nat
    BY <1>3, FS_CardinalityType
  <1>5. Rank(snapshot, ids, id) = Cardinality(before)
    BY DEF Rank
  <1> HIDE DEF before
  <1>6. QED
    BY <1>1, <1>3, <1>4, <1>5

(* What ranks before another has the smaller rank. *)
LEMMA RankIsMonotone ==
  ASSUME NEW snapshot, NEW ids, IsFiniteSet(ids), ids \subseteq RankedIds(snapshot),
         NEW a \in ids, NEW b \in ids, RanksBefore(snapshot, a, b)
  PROVE  Rank(snapshot, ids, a) < Rank(snapshot, ids, b)
  <1> DEFINE A == {o \in ids : RanksBefore(snapshot, o, a)}
             B == {o \in ids : RanksBefore(snapshot, o, b)}
  <1>1. IsFiniteSet(B)
    <2>1. B \in SUBSET ids
      OBVIOUS
    <2>2. QED
      BY <2>1, FS_Subset
  <1>2. A \in SUBSET B
    BY RankingIsTransitive
  <1>3. a \in B /\ a \notin A
    BY RankingIsTotal
  <1>4. Rank(snapshot, ids, a) = Cardinality(A) /\ Rank(snapshot, ids, b) = Cardinality(B)
    BY DEF Rank
  <1> HIDE DEF A, B
  <1>5. IsFiniteSet(A) /\ Cardinality(A) <= Cardinality(B) /\ Cardinality(B) # Cardinality(A)
    BY <1>1, <1>2, <1>3, FS_Subset
  <1>6. Cardinality(A) \in Nat /\ Cardinality(B) \in Nat
    BY <1>1, <1>5, FS_CardinalityType
  <1>7. QED
    BY <1>4, <1>5, <1>6

(* Whatever is kept ranks before whatever is cut. *)
LEMMA KeptRanksBeforeCut ==
  ASSUME NEW snapshot, NEW ids, IsFiniteSet(ids), ids \subseteq RankedIds(snapshot),
         NEW n \in Nat, NEW s \in FirstRanked(snapshot, ids, n),
         NEW l \in ids \ FirstRanked(snapshot, ids, n)
  PROVE  RanksBefore(snapshot, s, l)
  <1>1. s \in ids /\ l \in ids /\ Rank(snapshot, ids, s) < n /\ ~(Rank(snapshot, ids, l) < n)
    BY DEF FirstRanked, Rank
  <1>2. /\ IsFiniteSet(ids) /\ Cardinality(ids) \in Nat
        /\ Rank(snapshot, ids, s) \in Nat /\ Rank(snapshot, ids, l) \in Nat
    <2>1. Rank(snapshot, ids, s) \in 0..(Cardinality(ids) - 1)
      BY <1>1, RankType
    <2>2. Rank(snapshot, ids, l) \in 0..(Cardinality(ids) - 1)
      BY <1>1, RankType
    <2>3. Cardinality(ids) \in Nat
      BY FS_CardinalityType
    <2>4. QED
      BY <2>1, <2>2, <2>3
  <1>3. ~RanksBefore(snapshot, l, s)
    <2>1. RanksBefore(snapshot, l, s) => Rank(snapshot, ids, l) < Rank(snapshot, ids, s)
      BY <1>1, RankIsMonotone
    <2>2. QED
      BY <1>1, <1>2, <2>1
  <1>4. s # l /\ s \in RankedIds(snapshot) /\ l \in RankedIds(snapshot)
    BY <1>1
  <1>5. QED
    BY <1>3, <1>4, RankingIsTotal

(* When something is cut, exactly as many are kept as may be: ranks are the  *)
(* numbers below the size of the set, each the rank of one substrate.        *)
LEMMA CutKeepsTheNumber ==
  ASSUME NEW snapshot, NEW ids, IsFiniteSet(ids), ids \subseteq RankedIds(snapshot),
         NEW n \in Nat, ids \ FirstRanked(snapshot, ids, n) # {}
  PROVE  Cardinality(FirstRanked(snapshot, ids, n)) = n
  <1> DEFINE size == Cardinality(ids)
             kept == FirstRanked(snapshot, ids, n)
             Ranks == 0..(size - 1)
             Below == 0..(n - 1)
             rank == [id \in ids |-> Rank(snapshot, ids, id)]
  <1>1. size \in Nat /\ \A id \in ids : Rank(snapshot, ids, id) \in Ranks
    BY RankType, FS_CardinalityType
  <1>2. kept = {id \in ids : rank[id] < n}
    BY DEF FirstRanked, Rank
  <1>3. n < size
    <2>1. PICK l \in ids : l \notin kept
      OBVIOUS
    <2>2. rank[l] \in Ranks /\ ~(rank[l] < n)
      BY <1>1, <1>2, <2>1
    <2> HIDE DEF rank, kept, size
    <2>3. QED
      BY <1>1, <2>2
  <1>4. rank \in Injection(ids, Ranks)
    <2>1. rank \in [ids -> Ranks]
      BY <1>1
    <2>2. ASSUME NEW a \in ids, NEW b \in ids, a # b PROVE rank[a] # rank[b]
      <3>1. a \in RankedIds(snapshot) /\ b \in RankedIds(snapshot)
        OBVIOUS
      <3>2. RanksBefore(snapshot, a, b) \/ RanksBefore(snapshot, b, a)
        BY <2>2, <3>1, RankingIsTotal
      <3>3. rank[a] < rank[b] \/ rank[b] < rank[a]
        BY <3>2, RankIsMonotone
      <3>4. rank[a] \in Int /\ rank[b] \in Int
        BY <1>1
      <3> HIDE DEF rank
      <3>5. QED
        BY <3>3, <3>4
    <2> HIDE DEF rank
    <2>3. QED
      BY <2>1, <2>2 DEF Injection, IsInjective
  <1>5. /\ IsFiniteSet(Ranks) /\ Cardinality(Ranks) = size
        /\ IsFiniteSet(Below) /\ Cardinality(Below) = n
    <2> HIDE DEF size
    <2>1. 0 \in Int /\ size - 1 \in Int /\ n - 1 \in Int
      BY <1>1
    <2>2. /\ IsFiniteSet(Ranks)
          /\ Cardinality(Ranks) = IF 0 > size - 1 THEN 0 ELSE (size - 1) - 0 + 1
      BY <2>1, FS_Interval
    <2>3. /\ IsFiniteSet(Below)
          /\ Cardinality(Below) = IF 0 > n - 1 THEN 0 ELSE (n - 1) - 0 + 1
      BY <2>1, FS_Interval
    <2>4. QED
      BY <1>1, <2>2, <2>3
  <1> HIDE DEF rank, Ranks, Below
  <1>6. rank \in Surjection(ids, Ranks)
    BY <1>4, <1>5, FS_Injection
  <1> DEFINE cut == [id \in kept |-> rank[id]]
  <1> HIDE DEF kept, size
  <1>7. cut \in Injection(kept, Below)
    <2>1. ASSUME NEW id \in kept PROVE rank[id] \in Below /\ id \in ids
      BY <1>1, <1>2, <1>4 DEF Injection, Ranks, Below
    <2>2. QED
      BY <1>4, <2>1 DEF Injection, IsInjective
  <1>8. cut \in Surjection(kept, Below)
    <2>1. ASSUME NEW r \in Below PROVE \E id \in kept : cut[id] = r
      <3>1. r \in Ranks /\ r < n
        BY <1>1, <1>3 DEF Ranks, Below
      <3>2. PICK id \in ids : rank[id] = r
        BY <1>6, <3>1 DEF Surjection
      <3>3. id \in kept
        BY <1>2, <3>1, <3>2
      <3>4. QED
        BY <3>2, <3>3
    <2>2. cut \in [kept -> Below]
      BY <1>7 DEF Injection
    <2> HIDE DEF cut
    <2>3. QED
      BY <2>1, <2>2 DEF Surjection
  <1> HIDE DEF cut
  <1>9. Cardinality(kept) = Cardinality(Below)
    BY <1>5, <1>7, <1>8, FS_Injection
  <1>10. QED
    BY <1>5, <1>9 DEF kept

(* A cut never keeps more than it may. *)
LEMMA CutKeepsNoMore ==
  ASSUME NEW snapshot, NEW ids, IsFiniteSet(ids), ids \subseteq RankedIds(snapshot), NEW n \in Nat
  PROVE  Cardinality(FirstRanked(snapshot, ids, n)) <= n
  <1> DEFINE kept == FirstRanked(snapshot, ids, n)
             Places == 0..(n - 1)
             place == [id \in kept |-> Rank(snapshot, ids, id)]
  <1>1. kept \subseteq ids /\ IsFiniteSet(kept)
    BY FS_Subset DEF FirstRanked
  <1>2. \A id \in kept : Rank(snapshot, ids, id) \in Places
    <2>1. \A id \in kept : Rank(snapshot, ids, id) < n
      BY DEF FirstRanked, Rank
    <2>2. \A id \in kept : Rank(snapshot, ids, id) \in 0..(Cardinality(ids) - 1)
      BY <1>1, RankType
    <2>3. Cardinality(ids) \in Nat
      BY FS_CardinalityType
    <2>4. QED
      BY <2>1, <2>2, <2>3
  <1>3. \A a \in kept, b \in kept : Rank(snapshot, ids, a) = Rank(snapshot, ids, b) => a = b
    <2> SUFFICES ASSUME NEW a \in kept, NEW b \in kept, a # b
                 PROVE  Rank(snapshot, ids, a) # Rank(snapshot, ids, b)
      OBVIOUS
    <2>1. a \in ids /\ b \in ids
      BY <1>1
    <2>2. RanksBefore(snapshot, a, b) \/ RanksBefore(snapshot, b, a)
      BY <2>1, RankingIsTotal
    <2>3. \/ Rank(snapshot, ids, a) < Rank(snapshot, ids, b)
          \/ Rank(snapshot, ids, b) < Rank(snapshot, ids, a)
      BY <2>1, <2>2, RankIsMonotone
    <2>4. Rank(snapshot, ids, a) \in Int /\ Rank(snapshot, ids, b) \in Int
      BY <1>2
    <2>5. QED
      BY <2>3, <2>4
  <1> HIDE DEF kept
  <1>4. place \in Injection(kept, Places)
    BY <1>2, <1>3 DEF Injection, IsInjective
  <1> HIDE DEF place
  <1>5. IsFiniteSet(Places) /\ Cardinality(Places) = n
    <2>1. 0 \in Int /\ n - 1 \in Int
      OBVIOUS
    <2>2. IsFiniteSet(Places) /\ Cardinality(Places) = IF 0 > n - 1 THEN 0 ELSE (n - 1) - 0 + 1
      BY <2>1, FS_Interval
    <2>3. QED
      BY <2>2
  <1> HIDE DEF Places
  <1>6. Cardinality(kept) <= Cardinality(Places)
    BY <1>4, <1>5, FS_Injection
  <1>7. QED
    BY <1>5, <1>6 DEF kept

(* What is left out after a cut costs no more than its own places: taken out *)
(* before the cut, it would have made room for that many others and for no    *)
(* more, and nothing that is taken would have been missed.  The producer of  *)
(* a subject, and verifiers that are not independent of it, are left out     *)
(* after the cut (_selected_verifiers), so a producer that does not itself   *)
(* rank among the first costs no verifier its place.                        *)
THEOREM LeavingOutAfterTheCut ==
  ASSUME NEW snapshot, NEW ids, IsFiniteSet(ids), ids \subseteq RankedIds(snapshot),
         NEW n \in Nat, NEW out
  PROVE  LET after  == FirstRanked(snapshot, ids, n) \ out
             before == FirstRanked(snapshot, ids \ out, n)
             lost   == FirstRanked(snapshot, ids, n) \cap out
         IN /\ after \subseteq before
            /\ Cardinality(before) <= Cardinality(after) + Cardinality(lost)
  <1> DEFINE first  == FirstRanked(snapshot, ids, n)
             before == FirstRanked(snapshot, ids \ out, n)
  <1>1. /\ first \subseteq ids /\ before \subseteq ids \ out
        /\ IsFiniteSet(first) /\ IsFiniteSet(ids \ out)
        /\ IsFiniteSet(first \ out) /\ IsFiniteSet(first \cap out)
    <2>1. first \subseteq ids /\ before \subseteq ids \ out
      BY DEF FirstRanked
    <2> HIDE DEF first, before
    <2>2. IsFiniteSet(first) /\ IsFiniteSet(ids \ out)
      BY <2>1, FS_Subset
    <2>3. IsFiniteSet(first \ out) /\ IsFiniteSet(first \cap out)
      BY <2>2, FS_Subset
    <2>4. QED
      BY <2>1, <2>2, <2>3
  <1>2. first \ out \subseteq before
    <2> SUFFICES ASSUME NEW id \in first, id \notin out
                 PROVE  id \in before
      OBVIOUS
    <2> DEFINE all  == {o \in ids : RanksBefore(snapshot, o, id)}
               some == {o \in ids \ out : RanksBefore(snapshot, o, id)}
    <2>1. some \subseteq all /\ all \subseteq ids
      OBVIOUS
    <2>2. id \in ids \ out /\ Cardinality(all) < n
      BY DEF FirstRanked
    <2> HIDE DEF all
    <2>3. Cardinality(some) < n
      <3> HIDE DEF some
      <3>1. IsFiniteSet(all)
        BY <2>1, FS_Subset
      <3>2. IsFiniteSet(some) /\ Cardinality(some) <= Cardinality(all)
        BY <2>1, <3>1, FS_Subset
      <3>3. Cardinality(some) \in Nat /\ Cardinality(all) \in Nat
        BY <3>1, <3>2, FS_CardinalityType
      <3>4. QED
        BY <2>2, <3>2, <3>3
    <2>4. QED
      BY <2>2, <2>3 DEF FirstRanked
  <1>3. Cardinality(before) <= n
    BY <1>1, CutKeepsNoMore
  <1> HIDE DEF first, before
  <1>4. /\ Cardinality(first) = Cardinality(first \ out) + Cardinality(first \cap out)
        /\ Cardinality(first \ out) \in Nat /\ Cardinality(first \cap out) \in Nat
    <2>1. Cardinality(first \ out) = Cardinality(first) - Cardinality(first \cap out)
      BY <1>1, FS_Difference, Zenon
    <2>2. /\ Cardinality(first) \in Nat /\ Cardinality(first \ out) \in Nat
          /\ Cardinality(first \cap out) \in Nat
      BY <1>1, FS_CardinalityType
    <2>3. QED
      BY <2>1, <2>2
  <1>5. CASE ids \ first = {}
    <2>1. before \subseteq first \ out
      BY <1>1, <1>5
    <2>2. /\ Cardinality(before) <= Cardinality(first \ out) /\ IsFiniteSet(before)
      BY <1>1, <2>1, FS_Subset
    <2>3. Cardinality(before) \in Nat
      BY <2>2, FS_CardinalityType
    <2>4. QED
      BY <1>2, <1>4, <2>2, <2>3 DEF first, before
  <1>6. CASE ids \ first # {}
    <2>1. Cardinality(first) = n
      BY <1>6, CutKeepsTheNumber DEF first
    <2>2. QED
      BY <1>2, <1>3, <1>4, <2>1 DEF first, before
  <1>7. QED
    BY <1>5, <1>6

-----------------------------------------------------------------------------
(* The overlay of a fallback policy. *)

(* What a fallback chooses from. *)
Candidates(in) ==
  {id \in EligibleIds(in.request, in.policy, in.snapshot, 0)
            \ Excluded(in.decision, in.fallback, in.unavailable) :
     Permitted(in.fallback, in.snapshot.substrates[id])}

LEMMA CandidatesAreRanked ==
  ASSUME NEW in \in Inputs
  PROVE  IsFiniteSet(Candidates(in)) /\ Candidates(in) \subseteq RankedIds(in.snapshot)
  <1>1. in.snapshot \in Snapshot
    BY DEF Inputs
  <1>2. Candidates(in) \subseteq DOMAIN in.snapshot.substrates
    BY DEF Candidates, EligibleIds
  <1>3. Candidates(in) \subseteq RankedIds(in.snapshot)
    BY <1>1, <1>2, SelectionAssumption DEF RankedIds
  <1>4. Candidates(in) \in SUBSET SubstrateId
    BY <1>3 DEF RankedIds
  <1>5. QED
    BY <1>3, <1>4, SubstrateIdAssumption, FS_Subset

(* What a policy demands of a substrate, as one condition. *)
PolicyMeets(policy, s) ==
  /\ policy.required_capabilities \subseteq s.capabilities
  /\ s.substrate_kind \in policy.allowed_substrate_kinds
  /\ s.availability_state = "DEGRADED" => policy.allow_degraded
  /\ s.availability_state \notin {"UNAVAILABLE", "REVOKED", "INCOMPATIBLE"}
  /\ s.network_requirements \subseteq policy.allowed_network_requirements
  /\ s.authorization_requirements \subseteq policy.satisfied_authorization_requirements

LEMMA PolicyRejectionsIff ==
  ASSUME NEW policy, NEW s
  PROVE  PolicyRejections(policy, s) = {} <=> PolicyMeets(policy, s)
  BY DEF PolicyRejections, PolicyMeets

LEMMA EligibleIff ==
  ASSUME NEW request, NEW policy, NEW s
  PROVE  Eligible(request, policy, s, 0) <=>
           /\ ValidationRejections(s, 0) = {}
           /\ PolicyMeets(policy, s)
           /\ RequestRejections(request, policy, s) = {}
  BY PolicyRejectionsIff DEF Eligible, RejectionReasons

(* A substrate meets the overlay when it meets the candidate policy and the  *)
(* fallback policy permits it: the fallback policy is nowhere wider.         *)
LEMMA OverlayIsBoth ==
  ASSUME NEW policy \in Policy, NEW fallback \in Fallback, NarrowsPolicy(fallback, policy),
         NEW request, NEW s, s.owner \in fallback.allowed_owner_refs
  PROVE  Eligible(request, Overlay(policy, fallback), s, 0) <=>
           Eligible(request, policy, s, 0) /\ Permitted(fallback, s)
  <1> DEFINE overlay == Overlay(policy, fallback)
  <1>1. /\ overlay.allowed_substrate_kinds = fallback.allowed_substrate_kinds
        /\ overlay.allowed_network_requirements = fallback.allowed_network_requirements
        /\ overlay.allow_degraded = fallback.allow_degraded
    BY SelectionAssumption DEF Overlay
  <1>2. /\ overlay.required_capabilities = policy.required_capabilities
        /\ overlay.satisfied_authorization_requirements
             = policy.satisfied_authorization_requirements
        /\ overlay.deterministic_profiles = policy.deterministic_profiles
        /\ overlay.explainability_profile = policy.explainability_profile
    BY DEF Overlay
  <1> HIDE DEF overlay
  <1>3. PolicyMeets(overlay, s) <=> PolicyMeets(policy, s) /\ Permitted(fallback, s)
    BY <1>1, <1>2 DEF PolicyMeets, Permitted, NarrowsPolicy
  <1>4. RequestRejections(request, overlay, s) = RequestRejections(request, policy, s)
    BY <1>2 DEF RequestRejections
  <1>5. QED
    BY <1>3, <1>4, EligibleIff DEF overlay

(* The candidates of a fallback are those of the narrowed selection. *)
LEMMA SameCandidates ==
  ASSUME NEW in \in Inputs, NarrowsPolicy(in.fallback, in.policy), NEW rest,
         rest = Remaining(in.snapshot, Excluded(in.decision, in.fallback, in.unavailable),
                          in.fallback.allowed_owner_refs)
  PROVE  /\ EligibleIds(in.request, Overlay(in.policy, in.fallback), rest, 0) = Candidates(in)
         /\ \A id \in Candidates(in) : rest.substrates[id] = in.snapshot.substrates[id]
  <1> DEFINE all == in.snapshot.substrates
             excluded == Excluded(in.decision, in.fallback, in.unavailable)
             owners == in.fallback.allowed_owner_refs
             ids == {i \in DOMAIN all \ excluded : all[i].owner \in owners}
  <1>1. in.snapshot \in Snapshot /\ in.policy \in Policy /\ in.fallback \in Fallback
    BY DEF Inputs
  <1>2. rest.substrates = [id \in ids |-> all[id]]
    BY <1>1, SelectionAssumption DEF Remaining
  <1>3. EligibleIds(in.request, Overlay(in.policy, in.fallback), rest, 0) =
          {id \in ids : Eligible(in.request, Overlay(in.policy, in.fallback), all[id], 0)}
    BY <1>2 DEF EligibleIds
  <1>4. \A id \in ids : Eligible(in.request, Overlay(in.policy, in.fallback), all[id], 0) <=>
                          /\ Eligible(in.request, in.policy, all[id], 0)
                          /\ Permitted(in.fallback, all[id])
    BY <1>1, OverlayIsBoth
  <1>5. Candidates(in) = {id \in DOMAIN all \ excluded :
                            /\ Eligible(in.request, in.policy, all[id], 0)
                            /\ Permitted(in.fallback, all[id])}
    BY DEF Candidates, EligibleIds
  <1>6. Candidates(in) \subseteq ids
    BY <1>5 DEF Permitted
  <1> HIDE DEF all, excluded, owners
  <1>7. {id \in ids : Eligible(in.request, Overlay(in.policy, in.fallback), all[id], 0)}
          = Candidates(in)
    BY <1>4, <1>5, <1>6
  <1>8. QED
    BY <1>2, <1>3, <1>6, <1>7 DEF all

(* Substrates that both snapshots list alike are ranked and cut alike. *)
LEMMA SameCut ==
  ASSUME NEW a, NEW b, NEW ids, NEW n,
         \A id \in ids : a.substrates[id] = b.substrates[id]
  PROVE  FirstRanked(a, ids, n) = FirstRanked(b, ids, n)
  <1>1. \A id \in ids : RankKey(a, id) = RankKey(b, id)
    BY DEF RankKey
  <1>2. \A x \in ids, y \in ids : RanksBefore(a, x, y) <=> RanksBefore(b, x, y)
    BY <1>1 DEF RanksBefore
  <1>3. \A id \in ids : {o \in ids : RanksBefore(a, o, id)} = {o \in ids : RanksBefore(b, o, id)}
    BY <1>2
  <1>4. QED
    BY <1>3 DEF FirstRanked

-----------------------------------------------------------------------------
(* The invariant: what was selected is the cut of the candidates. *)
SelectInv ==
  /\ given \in Inputs /\ NarrowsPolicy(given.fallback, given.policy)
  /\ done => selected = FirstRanked(given.snapshot, Candidates(given),
                                    given.fallback.max_selected_substrates)

LEMMA SelectInvHolds == Spec => []SelectInv
  <1>1. Init => SelectInv
    BY DEF Init, SelectInv
  <1>2. SelectInv /\ [Next]_vars => SelectInv'
    <2> SUFFICES ASSUME SelectInv, [Next]_vars PROVE SelectInv'
      OBVIOUS
    <2>1. CASE Select
      <3>1. given' = given
        BY <2>1 DEF Select
      <3>2. selected' = FirstRanked(given.snapshot, Candidates(given),
                                    given.fallback.max_selected_substrates)
        BY <2>1 DEF Select, FallbackSelected, Candidates
      <3>3. QED
        BY <3>1, <3>2 DEF SelectInv
    <2>2. CASE UNCHANGED vars
      BY <2>2 DEF vars, SelectInv
    <2>3. QED
      BY <2>1, <2>2 DEF Next
  <1>3. QED
    BY <1>1, <1>2, PTL DEF Spec

-----------------------------------------------------------------------------
(* A fallback is an ordinary candidate selection under the narrowed policy,  *)
(* on what is left of the snapshot, whatever _select_fallback_substrates is   *)
(* given.                                                                   *)
THEOREM FallbackIsNarrowedSelectionHolds == Spec => []FallbackIsNarrowedSelection
  <1>1. SelectInv => FallbackIsNarrowedSelection
    <2> SUFFICES ASSUME SelectInv, done PROVE FallbackIsNarrowedSelection
      BY DEF FallbackIsNarrowedSelection
    <2> DEFINE rest == Remaining(given.snapshot,
                                 Excluded(given.decision, given.fallback, given.unavailable),
                                 given.fallback.allowed_owner_refs)
               overlay == Overlay(given.policy, given.fallback)
               n == given.fallback.max_selected_substrates
    <2>1. given.policy \in Policy /\ given \in Inputs /\ NarrowsPolicy(given.fallback, given.policy)
      BY DEF SelectInv, Inputs
    <2>2. overlay.max_selected_substrates = n
      BY <2>1, SelectionAssumption DEF Overlay
    <2>3. /\ EligibleIds(given.request, overlay, rest, 0) = Candidates(given)
          /\ \A id \in Candidates(given) :
               rest.substrates[id] = given.snapshot.substrates[id]
      BY <2>1, SameCandidates
    <2> HIDE DEF rest, overlay, n
    <2>4. FirstRanked(rest, Candidates(given), n)
            = FirstRanked(given.snapshot, Candidates(given), n)
      BY <2>3, SameCut
    <2>5. Selected(given.request, rest, overlay, 0) = FirstRanked(rest, Candidates(given), n)
      BY <2>2, <2>3 DEF Selected
    <2>6. selected = FirstRanked(given.snapshot, Candidates(given), n)
      BY DEF SelectInv, n
    <2>7. selected = Selected(given.request, rest, overlay, 0)
      BY <2>4, <2>5, <2>6
    <2>8. QED
      BY <2>7 DEF FallbackIsNarrowedSelection, rest, overlay
  <1>2. QED
    BY <1>1, SelectInvHolds, PTL

(* What ranks first is no worse: not degraded beside one that is not, and    *)
(* not dearer than one of the same availability (_fallback_rank_key).         *)
LEMMA RanksBeforeIsBetter ==
  ASSUME NEW in \in Inputs, NEW s \in Candidates(in), NEW l \in Candidates(in),
         RanksBefore(in.snapshot, s, l)
  PROVE  LET Of(id) == in.snapshot.substrates[id]
         IN IF Of(s).availability_state = Of(l).availability_state
            THEN Of(s).min_compute_units <= Of(l).min_compute_units
            ELSE Of(l).availability_state = "DEGRADED"
  <1> DEFINE Of(id) == in.snapshot.substrates[id]
             Degraded(id) == IF Of(id).availability_state = "DEGRADED" THEN 1 ELSE 0
             x == RankKey(in.snapshot, s)
             y == RankKey(in.snapshot, l)
  <1>1. x[1] < y[1] \/ (x[1] = y[1] /\ (x[2] < y[2] \/ x[2] = y[2]))
    BY RanksBeforeIff
  <1>2. /\ x[1] = Degraded(s) /\ x[2] = Of(s).min_compute_units
        /\ y[1] = Degraded(l) /\ y[2] = Of(l).min_compute_units
    BY DEF RankKey
  <1>3. ASSUME NEW id \in Candidates(in)
        PROVE  /\ Of(id).min_compute_units \in Nat
               /\ Of(id).availability_state \in {"AVAILABLE", "DEGRADED"}
    <2>1. /\ in.snapshot \in Snapshot /\ id \in DOMAIN in.snapshot.substrates
          /\ Eligible(in.request, in.policy, Of(id), 0)
      BY DEF Inputs, Candidates, EligibleIds
    <2>2. /\ Of(id).min_compute_units \in Nat
          /\ Of(id).availability_state \in
               {"AVAILABLE", "DEGRADED", "UNAVAILABLE", "REVOKED", "INCOMPATIBLE"}
      BY <2>1, SelectionAssumption
    <2>3. PolicyMeets(in.policy, Of(id))
      BY <2>1, EligibleIff
    <2>4. QED
      BY <2>2, <2>3 DEF PolicyMeets
  <1> HIDE DEF x, y
  <1>4. QED
    BY <1>1, <1>2, <1>3

(* What a fallback selects is the best of what it may, and all of it that    *)
(* the fan-out allows, whatever _select_fallback_substrates is given.         *)
THEOREM SelectionIsBestHolds == Spec => []SelectionIsBest
  <1>1. SelectInv => SelectionIsBest
    <2> SUFFICES ASSUME SelectInv, done PROVE SelectionIsBest
      BY DEF SelectionIsBest
    <2> DEFINE n == given.fallback.max_selected_substrates
               left == Candidates(given) \ selected
    <2>1. given \in Inputs /\ n \in Nat
      BY SelectionAssumption DEF SelectInv, Inputs
    <2>2. selected = FirstRanked(given.snapshot, Candidates(given), n)
      BY DEF SelectInv
    <2>3. IsFiniteSet(Candidates(given)) /\ Candidates(given) \subseteq RankedIds(given.snapshot)
      BY <2>1, CandidatesAreRanked
    <2>4. left # {} => Cardinality(selected) = n
      BY <2>1, <2>2, <2>3, CutKeepsTheNumber
    <2>5. \A s \in selected, l \in left :
             LET Of(id) == given.snapshot.substrates[id]
             IN IF Of(s).availability_state = Of(l).availability_state
                THEN Of(s).min_compute_units <= Of(l).min_compute_units
                ELSE Of(l).availability_state = "DEGRADED"
      <3>1. ASSUME NEW s \in selected, NEW l \in left
            PROVE  /\ RanksBefore(given.snapshot, s, l)
                   /\ s \in Candidates(given) /\ l \in Candidates(given)
        BY <2>1, <2>2, <2>3, KeptRanksBeforeCut DEF FirstRanked
      <3>2. QED
        BY <2>1, <3>1, RanksBeforeIsBetter
    <2>6. left = {id \in EligibleIds(given.request, given.policy, given.snapshot, 0)
                          \ Excluded(given.decision, given.fallback, given.unavailable) :
                   Permitted(given.fallback, given.snapshot.substrates[id])} \ selected
      BY DEF Candidates
    <2> HIDE DEF left
    <2>7. QED
      BY <2>4, <2>5, <2>6 DEF SelectionIsBest
  <1>2. QED
    BY <1>1, SelectInvHolds, PTL

=============================================================================
