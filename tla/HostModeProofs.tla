--------------------------- MODULE HostModeProofs ---------------------------
(***************************************************************************)
(* Proofs about server mode, for any users, vectors of up to 256 features   *)
(* and any faceprints the device may send: the vectors that are stored stay *)
(* in the range the matcher needs, an authentication keeps what was         *)
(* enrolled, the integer score is a score, an adaptive vector stays near    *)
(* the enrolled one, and the winner is the best.                            *)
(***************************************************************************)
EXTENDS HostMode, TLAPS, WellFoundedInduction, FiniteSetTheorems

Sample == [version : Int, type : {"W10", "RGB"}, masked : BOOLEAN, features : Vector]

\* A set of numbers has a least one.
LEMMA LeastExists ==
    ASSUME NEW S, S \subseteq Nat, S # {}
    PROVE  \E x \in S : \A y \in S : x <= y
<1> DEFINE Below == {ss \in Nat \X Nat : ss[1] < ss[2]}
<1>1. IsWellFoundedOn(Below, Nat)
  <2>1. OpToRel(<, Nat) = Below
    BY DEF OpToRel
  <2> QED
    BY <2>1, NatLessThanWellFounded
<1> HIDE DEF Below
<1>2. PICK x \in S : \A y \in S : ~(<<y, x>> \in Below)
  BY <1>1, WFMin
<1>3. ASSUME NEW y \in S, y < x PROVE FALSE
  <2>1. <<y, x>> \in Nat \X Nat /\ <<y, x>>[1] = y /\ <<y, x>>[2] = x
    OBVIOUS
  <2>2. <<y, x>> \in Below
    BY <1>3, <2>1 DEF Below
  <2> QED
    BY <1>2, <2>2
<1> QED
  BY <1>3

-----------------------------------------------------------------------------
(* The matcher's arithmetic.                                                *)

\* The average of two values in range is in range: the clamp that is dropped is not needed.
LEMMA BlendInRange ==
    ASSUME NEW a \in -MaxFeature .. MaxFeature, NEW n \in -MaxFeature .. MaxFeature
    PROVE  BlendFeature(a, n) \in -MaxFeature .. MaxFeature
<1>1. a \in Int /\ n \in Int /\ -1023 <= a /\ a <= 1023 /\ -1023 <= n /\ n <= 1023
  BY DEF MaxFeature
<1>2. BlendFeature(a, n) = IF (60 * a) + (2 * n) >= 0 THEN ((60 * a) + (2 * n) + 31) \div 62
                           ELSE -((31 - ((60 * a) + (2 * n))) \div 62)
  BY <1>1 DEF BlendFeature, HistoryWeight
<1> QED
  BY <1>1, <1>2 DEF MaxFeature

\* And of two whole numbers a whole number.
LEMMA BlendIsInt ==
    ASSUME NEW a \in Int, NEW n \in Int PROVE BlendFeature(a, n) \in Int
BY DEF BlendFeature, HistoryWeight

\* So it is for the vectors.
LEMMA BlendVector ==
    ASSUME NEW u \in Vector, NEW v \in Vector
    PROVE  /\ BlendAverageVector(u, v) \in Vector
           /\ InRange(u) /\ InRange(v) => InRange(BlendAverageVector(u, v))
<1>1. DOMAIN u = Features /\ DOMAIN v = Features
  BY DEF Vector
<1>2. BlendAverageVector(u, v) = [i \in Features |-> BlendFeature(u[i], v[i])]
  BY <1>1 DEF BlendAverageVector
<1>3. \A i \in Features : BlendFeature(u[i], v[i]) \in Int
  BY BlendIsInt DEF Vector
<1>4. InRange(u) /\ InRange(v) =>
        \A i \in Features : BlendFeature(u[i], v[i]) \in -MaxFeature .. MaxFeature
  BY <1>1, BlendInRange DEF InRange
<1> QED
  BY <1>2, <1>3, <1>4 DEF Vector, InRange

\* A match, and the blending that follows one, are of vectors that were found comparable.
LEMMA MatchIsComparable ==
    ASSUME NEW p, NEW e
    PROVE  /\ MatchFaceprints(p, e).isSame => Comparable(p, e)
           /\ MatchFaceprints(p, e).blend => Comparable(p, e)
BY DEF MatchFaceprints, NoMatch

\* An entry that is blended once with a probe.
LEMMA BlendedOk ==
    ASSUME NEW e \in EntryType, NEW p \in Sample, Comparable(p, e), EntryInRange(e)
    PROVE  /\ BlendedEntry(p, e) \in EntryType /\ EntryInRange(BlendedEntry(p, e))
           /\ BlendedEntry(p, e).enrolled = e.enrolled /\ BlendedEntry(p, e).type = e.type
           /\ p.masked => BlendedEntry(p, e).maskValid
<1>1. /\ e.enrolled \in Vector /\ e.withoutMask \in Vector /\ p.features \in Vector
      /\ e.maskValid => e.withMask \in Vector
      /\ InRange(p.features) /\ InRange(e.withoutMask)
  BY DEF EntryType, Sample, Comparable, EntryInRange
<1>2. CASE ~p.masked
  <2>1. BlendedEntry(p, e) =
            [e EXCEPT !.withoutMask = BlendAverageVector(e.withoutMask, p.features)]
    BY <1>2 DEF BlendedEntry
  <2>2. /\ BlendAverageVector(e.withoutMask, p.features) \in Vector
        /\ InRange(BlendAverageVector(e.withoutMask, p.features))
    BY <1>1, BlendVector
  <2> QED
    BY <1>2, <2>1, <2>2 DEF EntryType, EntryInRange
<1>3. CASE p.masked /\ e.maskValid
  <2>1. BlendedEntry(p, e) = [e EXCEPT !.withMask = BlendAverageVector(e.withMask, p.features)]
    BY <1>3 DEF BlendedEntry
  <2>2. /\ BlendAverageVector(e.withMask, p.features) \in Vector
        /\ InRange(e.withMask) => InRange(BlendAverageVector(e.withMask, p.features))
    BY <1>1, <1>3, BlendVector
  <2> QED
    BY <1>3, <2>1, <2>2 DEF EntryType, EntryInRange
<1>4. CASE p.masked /\ ~e.maskValid
  <2>1. BlendedEntry(p, e) =
            [e EXCEPT !.withMask = BlendAverageVector(p.features, p.features), !.maskValid = TRUE]
    BY <1>4 DEF BlendedEntry
  <2>2. /\ BlendAverageVector(p.features, p.features) \in Vector
        /\ InRange(BlendAverageVector(p.features, p.features))
    BY <1>1, BlendVector
  <2> QED
    BY <1>4, <2>1, <2>2 DEF EntryType, EntryInRange
<1>5. p.masked \in BOOLEAN /\ e.maskValid \in BOOLEAN
  BY DEF Sample, EntryType
<1> QED
  BY <1>2, <1>3, <1>4, <1>5

\* One turn of LimitAdaptiveVector.
LEMMA PulledOk ==
    ASSUME NEW e \in EntryType, NEW masked \in BOOLEAN, EntryInRange(e), masked => e.maskValid
    PROVE  /\ PulledBack(masked, e) \in EntryType /\ EntryInRange(PulledBack(masked, e))
           /\ PulledBack(masked, e).enrolled = e.enrolled /\ PulledBack(masked, e).type = e.type
           /\ masked => PulledBack(masked, e).maskValid
<1>1. /\ e.enrolled \in Vector /\ e.withoutMask \in Vector
      /\ e.maskValid => e.withMask \in Vector
  BY DEF EntryType, EntryInRange
<1>2. CASE ~masked
  <2>1. PulledBack(masked, e) =
            [e EXCEPT !.withoutMask = BlendAverageVector(e.withoutMask, e.enrolled)]
    BY <1>2 DEF PulledBack, AdaptiveVector, AnchorVector
  <2>2. /\ BlendAverageVector(e.withoutMask, e.enrolled) \in Vector
        /\ InRange(e.withoutMask) /\ InRange(e.enrolled) =>
              InRange(BlendAverageVector(e.withoutMask, e.enrolled))
    BY <1>1, BlendVector
  <2> QED
    BY <1>2, <2>1, <2>2 DEF EntryType, EntryInRange
<1>3. CASE masked
  <2>1. PulledBack(masked, e) =
            [e EXCEPT !.withMask = BlendAverageVector(e.withMask, e.withoutMask)]
    BY <1>3 DEF PulledBack, AdaptiveVector, AnchorVector
  <2>2. /\ BlendAverageVector(e.withMask, e.withoutMask) \in Vector
        /\ InRange(e.withMask) /\ InRange(e.withoutMask) =>
              InRange(BlendAverageVector(e.withMask, e.withoutMask))
    BY <1>1, <1>3, BlendVector
  <2> QED
    BY <1>3, <2>1, <2>2 DEF EntryType, EntryInRange
<1> QED
  BY <1>2, <1>3

-----------------------------------------------------------------------------
(* The inductive invariant.                                                 *)

EntriesKnown == Enrolled \subseteq Users /\ \A u \in Enrolled : db[u] \in EntryType

SearchKnown == pc # "menu" => probe \in Sample /\ todo \subseteq Enrolled

\* What may replace the entry of user u after a match.
MayReplace(entry, u) ==
    /\ entry \in EntryType /\ EntryInRange(entry)
    /\ \/ entry.enrolled = db[u].enrolled /\ entry.type = db[u].type
       \/ /\ db[u].type # "W10" /\ entry.type = "W10" /\ ~probe.masked
          /\ entry.enrolled = probe.features

\* While an adaptive vector is limited, it is still the entry that was matched.
LimitKnown ==
    pc = "limit" =>
        /\ todo # {} /\ match = Match(NextUser)
        /\ updated \in EntryType /\ EntryInRange(updated)
        /\ updated.enrolled = db[NextUser].enrolled /\ updated.type = db[NextUser].type
        /\ probe.masked => updated.maskValid

\* The best match so far is of an entry that matches.
WinnerKnown ==
    pc # "menu" /\ winner.id # NoUser =>
        winner.id \in Enrolled /\ Match(winner.id).isSame /\ MayReplace(winner.entry, winner.id)

HostInv ==
    /\ EntriesKnown
    /\ VectorsInRange
    /\ SearchKnown
    /\ LimitKnown
    /\ WinnerKnown

\* The samples of the constant are samples.
LEMMA SampleType == Samples \subseteq Sample
BY SamplesAssumption DEF Sample, Vector

\* The search goes through the users it has still to look at, the first one first.
LEMMA NextUserKnown ==
    ASSUME EntriesKnown, todo \subseteq Enrolled, todo # {}
    PROVE  /\ NextUser \in todo /\ NextUser \in Enrolled
           /\ \A w \in todo : NextUser <= w
<1>1. todo \subseteq Nat
  BY UsersAssumption DEF EntriesKnown
<1>2. PICK u \in todo : \A w \in todo : u <= w
  BY <1>1, LeastExists
<1> QED
  BY <1>2 DEF NextUser


\* The invariant speaks only of these variables.
LEMMA HostStutter ==
    HostInv /\ UNCHANGED <<db, pc, probe, todo, match, updated, winner>> => HostInv'
BY DEF HostInv, EntriesKnown, VectorsInRange, SearchKnown, LimitKnown, WinnerKnown, MayReplace, Match,
   NextUser, Enrolled

-----------------------------------------------------------------------------
(* The commands.                                                            *)

LEMMA EnrollStep ==
    ASSUME HostInv, NEW u \in Users, NEW s \in Samples, EnrollFaceprints(u, s) PROVE HostInv'
<1> DEFINE old == IF u \in Enrolled THEN db[u].withMask ELSE NoVector
           entry == [version |-> s.version, type |-> s.type, enrolled |-> s.features,
                     withoutMask |-> s.features, withMask |-> old, maskValid |-> FALSE]
<1>1. pc = "menu" /\ pc' = "menu" /\ db' = [w \in Enrolled \cup {u} |-> IF w = u THEN entry ELSE db[w]]
  BY DEF EnrollFaceprints, Command
<1>2. s \in Sample
  BY SampleType
<1>3. old \in Vector \cup {NoVector}
  BY DEF HostInv, EntriesKnown, EntryType
<1>4. entry \in EntryType /\ EntryInRange(entry)
  BY <1>2, <1>3 DEF Sample, EntryType, EntryInRange
<1> HIDE DEF entry
<1>5. Enrolled' = Enrolled \cup {u}
  BY <1>1 DEF Enrolled
<1>6. \A w \in Enrolled' : db'[w] = entry \/ (w \in Enrolled /\ db'[w] = db[w])
  BY <1>1, <1>5
<1>7. EntriesKnown' /\ VectorsInRange'
  BY <1>4, <1>5, <1>6 DEF HostInv, EntriesKnown, VectorsInRange
<1> QED
  BY <1>1, <1>7 DEF HostInv, SearchKnown, LimitKnown, WinnerKnown

LEMMA DeleteStep == ASSUME HostInv, DeleteAll PROVE HostInv'
<1>1. pc' = "menu" /\ Enrolled' = {}
  BY DEF DeleteAll, Command, Enrolled
<1> QED
  BY <1>1 DEF HostInv, EntriesKnown, VectorsInRange, SearchKnown, LimitKnown, WinnerKnown

LEMMA AuthenticateStep ==
    ASSUME HostInv, NEW s \in Samples, AuthenticateFaceprints(s) PROVE HostInv'
<1>1. pc' = "search" /\ probe' = s /\ todo' = Enrolled /\ winner' = NoWinner /\ db' = db
  BY DEF AuthenticateFaceprints
<1>2. s \in Sample /\ Enrolled' = Enrolled /\ winner'.id = NoUser
  BY <1>1, SampleType DEF Enrolled, NoWinner
<1> QED
  BY <1>1, <1>2 DEF HostInv, EntriesKnown, VectorsInRange, SearchKnown, LimitKnown, WinnerKnown

-----------------------------------------------------------------------------
(* The search.                                                              *)

\* A result is kept of the entry it belongs to.
LEMMA KeepStep ==
    ASSUME HostInv, pc # "menu", todo # {}, NEW result, NEW flag, NEW entry,
           result.isSame => Match(NextUser).isSame /\ MayReplace(entry, NextUser),
           Keep(result, flag, entry)
    PROVE  HostInv'
<1>1. NextUser \in Enrolled
  BY NextUserKnown DEF HostInv, SearchKnown
<1>2. pc' = "search" /\ UNCHANGED <<db, probe>> /\ todo' \subseteq todo
  BY DEF Keep
<1>3. \/ winner' = winner
      \/ /\ result.isSame
         /\ winner' = [id |-> NextUser, score |-> result.score,
                       shouldUpdate |-> flag, entry |-> entry]
  BY DEF Keep, Better
<1>4. WinnerKnown'
  BY <1>1, <1>2, <1>3 DEF HostInv, WinnerKnown, MayReplace, Match, Enrolled
<1> QED
  BY <1>2, <1>4 DEF HostInv, EntriesKnown, VectorsInRange, SearchKnown, LimitKnown, Enrolled

\* A match that blends nothing leaves the entry, or resets an RGB entry to the probe.
LEMMA ReplacedMay ==
    ASSUME HostInv, pc # "menu", NEW u \in Enrolled
    PROVE  MayReplace(ReplacedEntry(probe, db[u]), u)
<1>1. db[u] \in EntryType /\ EntryInRange(db[u]) /\ probe \in Sample
  BY DEF HostInv, EntriesKnown, VectorsInRange, SearchKnown
<1>2. CASE db[u].type # "W10" /\ probe.type = "W10" /\ ~probe.masked
  <2>1. ReplacedEntry(probe, db[u]) =
            [db[u] EXCEPT !.type = probe.type, !.version = probe.version,
                          !.withoutMask = probe.features, !.enrolled = probe.features,
                          !.maskValid = FALSE]
    BY <1>2 DEF ReplacedEntry
  <2> QED
    BY <1>1, <1>2, <2>1 DEF EntryType, Sample, EntryInRange, MayReplace
<1>3. CASE ~(db[u].type # "W10" /\ probe.type = "W10" /\ ~probe.masked)
  BY <1>1, <1>3 DEF ReplacedEntry, MayReplace
<1> QED
  BY <1>2, <1>3

LEMMA SearchUserStep == ASSUME HostInv, SearchUser PROVE HostInv'
<1>1. /\ pc = "search" /\ todo # {}
      /\ MatchUser(Match(NextUser)) \/ BlendUser(Match(NextUser))
  BY DEF SearchUser, Match
<1>2. NextUser \in Enrolled
  BY <1>1, NextUserKnown DEF HostInv, SearchKnown
<1>3. CASE MatchUser(Match(NextUser))
  <2>1. Keep(Match(NextUser), Match(NextUser).shouldUpdate, ReplacedEntry(probe, db[NextUser]))
    BY <1>3 DEF MatchUser
  <2> QED
    BY <1>1, <1>2, <2>1, ReplacedMay, KeepStep
<1>4. CASE BlendUser(Match(NextUser))
  <2>1. /\ Match(NextUser).blend /\ match' = Match(NextUser) /\ pc' = "limit"
        /\ updated' = BlendedEntry(probe, db[NextUser])
        /\ UNCHANGED <<db, probe, todo, winner>>
    BY <1>4 DEF BlendUser
  <2>2. db[NextUser] \in EntryType /\ EntryInRange(db[NextUser]) /\ probe \in Sample
    BY <1>1, <1>2 DEF HostInv, EntriesKnown, VectorsInRange, SearchKnown
  <2>3. Comparable(probe, db[NextUser])
    BY <2>1, MatchIsComparable DEF Match
  <2>4. /\ updated' \in EntryType /\ EntryInRange(updated')
        /\ updated'.enrolled = db[NextUser].enrolled /\ updated'.type = db[NextUser].type
        /\ probe.masked => updated'.maskValid
    BY <2>1, <2>2, <2>3, BlendedOk
  <2>5. NextUser' = NextUser /\ Match(NextUser)' = Match(NextUser) /\ Enrolled' = Enrolled
    BY <2>1 DEF NextUser, Match, Enrolled
  <2>6. LimitKnown'
    BY <1>1, <2>1, <2>4, <2>5 DEF LimitKnown
  <2> QED
    BY <1>1, <2>1, <2>5, <2>6
       DEF HostInv, EntriesKnown, VectorsInRange, SearchKnown, WinnerKnown, MayReplace, Match
<1> QED
  BY <1>1, <1>3, <1>4

\* What is known while an adaptive vector is limited.
LEMMA LimitFacts ==
    ASSUME HostInv, pc = "limit"
    PROVE  /\ todo # {} /\ NextUser \in Enrolled /\ probe \in Sample
           /\ updated \in EntryType /\ EntryInRange(updated) /\ (probe.masked => updated.maskValid)
           /\ updated.enrolled = db[NextUser].enrolled /\ updated.type = db[NextUser].type
           /\ match = Match(NextUser)
<1>1. todo # {} /\ todo \subseteq Enrolled
  BY DEF HostInv, LimitKnown, SearchKnown
<1> QED
  BY <1>1, NextUserKnown DEF HostInv, LimitKnown, SearchKnown

LEMMA LimitTurnStep == ASSUME HostInv, LimitTurn PROVE HostInv'
<1>1. /\ pc = "limit" /\ updated' = PulledBack(probe.masked, updated)
      /\ UNCHANGED <<db, pc, probe, todo, match, winner>>
  BY DEF LimitTurn
<1>2. probe.masked \in BOOLEAN
  BY <1>1, LimitFacts DEF Sample
<1>3. /\ updated' \in EntryType /\ EntryInRange(updated')
      /\ updated'.enrolled = updated.enrolled /\ updated'.type = updated.type
      /\ probe.masked => updated'.maskValid
  BY <1>1, <1>2, LimitFacts, PulledOk
<1>4. NextUser' = NextUser /\ Match(NextUser)' = Match(NextUser) /\ Enrolled' = Enrolled
  BY <1>1 DEF NextUser, Match, Enrolled
<1>5. LimitKnown'
  BY <1>1, <1>3, <1>4, LimitFacts DEF LimitKnown
<1> QED
  BY <1>1, <1>4, <1>5
     DEF HostInv, EntriesKnown, VectorsInRange, SearchKnown, WinnerKnown, MayReplace, Match

LEMMA LimitFailsStep == ASSUME HostInv, LimitFails PROVE HostInv'
<1>1. pc = "limit" /\ Keep(match, FALSE, PulledBack(probe.masked, updated))
  BY DEF LimitFails
<1>2. probe.masked \in BOOLEAN
  BY <1>1, LimitFacts DEF Sample
<1>3. MayReplace(PulledBack(probe.masked, updated), NextUser)
  BY <1>1, <1>2, LimitFacts, PulledOk DEF MayReplace
<1> QED
  BY <1>1, <1>3, LimitFacts, KeepStep

LEMMA LimitEndsStep == ASSUME HostInv, LimitEnds PROVE HostInv'
<1>1. pc = "limit" /\ Keep(match, TRUE, updated)
  BY DEF LimitEnds
<1>2. MayReplace(updated, NextUser)
  BY <1>1, LimitFacts DEF MayReplace
<1> QED
  BY <1>1, <1>2, LimitFacts, KeepStep

\* The end of the search replaces one entry, or none.
LEMMA AppliedEntries ==
    ASSUME HostInv, ApplyUpdate
    PROVE  /\ pc # "menu" /\ pc' = "menu" /\ Enrolled' = Enrolled
           /\ \/ db' = db
              \/ /\ winner.id \in Enrolled /\ Match(winner.id).isSame
                 /\ MayReplace(winner.entry, winner.id)
                 /\ db'[winner.id] = winner.entry
                 /\ \A w \in Enrolled \ {winner.id} : db'[w] = db[w]
<1>1. /\ pc = "search" /\ pc' = "menu"
      /\ \/ db' = db
         \/ winner.id # NoUser /\ db' = [db EXCEPT ![winner.id] = winner.entry]
  BY DEF ApplyUpdate
<1>2. winner.id # NoUser =>
        winner.id \in Enrolled /\ Match(winner.id).isSame /\ MayReplace(winner.entry, winner.id)
  BY <1>1 DEF HostInv, WinnerKnown
<1> QED
  BY <1>1, <1>2 DEF Enrolled

LEMMA ApplyStep == ASSUME HostInv, ApplyUpdate PROVE HostInv'
<1>1. \A u \in Enrolled : db'[u] \in EntryType /\ EntryInRange(db'[u])
  BY AppliedEntries DEF HostInv, EntriesKnown, VectorsInRange, MayReplace
<1>2. EntriesKnown' /\ VectorsInRange'
  BY <1>1, AppliedEntries DEF HostInv, EntriesKnown, VectorsInRange
<1> QED
  BY <1>2, AppliedEntries DEF HostInv, SearchKnown, LimitKnown, WinnerKnown

-----------------------------------------------------------------------------

LEMMA HostInvInit == Init => HostInv
BY DEF Init, HostInv, EntriesKnown, VectorsInRange, SearchKnown, LimitKnown, WinnerKnown, Enrolled

LEMMA HostInvStep == HostInv /\ [Next]_vars => HostInv'
<1> SUFFICES ASSUME HostInv, [Next]_vars PROVE HostInv'
  OBVIOUS
<1>1. CASE UNCHANGED vars
  BY <1>1, HostStutter DEF vars
<1>2. CASE Search
  BY <1>2, SearchUserStep, LimitTurnStep, LimitFailsStep, LimitEndsStep, ApplyStep DEF Search
<1>3. CASE \E u \in Users, s \in Samples : EnrollFaceprints(u, s)
  BY <1>3, EnrollStep
<1>4. CASE DeleteAll
  BY <1>4, DeleteStep
<1>5. CASE \E s \in Samples : AuthenticateFaceprints(s)
  BY <1>5, AuthenticateStep
<1>6. CASE OtherOption
  BY <1>6, HostStutter DEF OtherOption, vars
<1> QED
  BY <1>1, <1>2, <1>3, <1>4, <1>5, <1>6 DEF Next

\* The invariant of server mode: what every entry, search and winner is.
THEOREM HostInvariant == Spec => []HostInv
BY HostInvInit, HostInvStep, PTL DEF Spec

\* However often an entry that was enrolled in range is blended and pulled back, its adaptive
\* vectors stay in the range that the matcher's 32-bit arithmetic needs.
THEOREM VectorsInRangeHolds == Spec => []VectorsInRange
<1>1. HostInv => VectorsInRange
  BY DEF HostInv
<1> QED
  BY <1>1, HostInvariant, PTL

\* An authentication replaces at most the entry that matched, and keeps its enrolled vector unless
\* it is an RGB entry that a probe of the device's own type without mask matched.
THEOREM AuthenticationKeepsEnrolledHolds == Spec => AuthenticationKeepsEnrolled
<1> DEFINE Kept == pc # "menu" /\ db' # db =>
        /\ Enrolled' = Enrolled
        /\ \E u \in Enrolled :
            /\ \A w \in Enrolled \ {u} : db'[w] = db[w]
            /\ Match(u).isSame
            /\ \/ db'[u].enrolled = db[u].enrolled /\ db'[u].type = db[u].type
               \/ /\ db[u].type # "W10" /\ db'[u].type = "W10" /\ ~probe.masked
                  /\ db'[u].enrolled = probe.features
<1>1. ASSUME HostInv, [Next]_vars PROVE [Kept]_vars
  <2> SUFFICES ASSUME pc # "menu", db' # db PROVE Kept
    OBVIOUS
  <2>1. ApplyUpdate
    BY <1>1 DEF Next, vars, EnrollFaceprints, DeleteAll, AuthenticateFaceprints, Command, OtherOption,
                Search, SearchUser, MatchUser, BlendUser, LimitTurn, LimitFails, LimitEnds, Keep
  <2> QED
    BY <1>1, <2>1, AppliedEntries DEF MayReplace
<1> QED
  BY <1>1, HostInvariant, PTL DEF Spec, AuthenticationKeepsEnrolled

-----------------------------------------------------------------------------
(* Sums over the features.                                                  *)

\* A sum over a finite set, element by element.
Picked(s) == CHOOSE x \in s : TRUE

\* A set that is not empty, without the element picked next.
LEMMA PickedStep ==
    ASSUME NEW D, IsFiniteSet(D), NEW s \in SUBSET D, s # {}
    PROVE  /\ Picked(s) \in s /\ s \ {Picked(s)} \in SUBSET D /\ s \ {Picked(s)} # s
           /\ Cardinality(s \ {Picked(s)}) = Cardinality(s) - 1
           /\ Cardinality(s) \in Nat /\ Cardinality(s) >= 1
<1>1. Picked(s) \in s
  BY DEF Picked
<1>2. IsFiniteSet(s)
  BY FS_Subset
<1>3. Cardinality(s) \in Nat /\ Cardinality(s) # 0
  BY <1>2, FS_CardinalityType, FS_EmptySet
<1>4. Cardinality(s \ {Picked(s)}) = Cardinality(s) - 1
  BY <1>1, <1>2, FS_RemoveElement
<1>5. Cardinality(s) >= 1
  BY <1>3
<1> QED
  BY <1>1, <1>3, <1>4, <1>5

\* What holds of no element, and of a set when it holds of the set without the element picked next,
\* holds of the whole set.
LEMMA PickedInduction ==
    ASSUME NEW D, IsFiniteSet(D), NEW G, {} \in G,
           \A s \in SUBSET D : s # {} /\ s \ {Picked(s)} \in G => s \in G
    PROVE  D \in G
<1> DEFINE Bad == {n \in Nat : \E s \in SUBSET D : Cardinality(s) = n /\ s \notin G}
<1>1. Bad = {}
  <2>1. SUFFICES ASSUME Bad # {} PROVE FALSE
    OBVIOUS
  <2>2. PICK n \in Bad : \A i \in Bad : n <= i
    <3>1. Bad \subseteq Nat
      OBVIOUS
    <3> HIDE DEF Bad
    <3> QED
      BY <2>1, <3>1, LeastExists
  <2>3. PICK s \in SUBSET D : Cardinality(s) = n /\ s \notin G
    BY <2>2
  <2>4. s # {}
    BY <2>3
  <2>5. PICK t : t = s \ {Picked(s)}
    OBVIOUS
  <2>6. t \in SUBSET D /\ Cardinality(t) = n - 1 /\ n \in Nat /\ n >= 1
    BY <2>3, <2>4, <2>5, PickedStep
  <2>7. n - 1 \notin Bad /\ n - 1 \in Nat
    <3>1. \A i \in Bad : n <= i /\ i \in Int
      BY <2>2
    <3> HIDE DEF Bad
    <3> QED
      BY <2>6, <3>1
  <2>8. t \in G
    BY <2>6, <2>7
  <2> QED
    BY <2>3, <2>4, <2>5, <2>8
<1>2. Cardinality(D) \in Nat
  BY FS_CardinalityType
<1> QED
  BY <1>1, <1>2

\* The recursion of a sum over a finite set is well defined: the sums over the sets with one element
\* more follow from those over smaller ones.
LEMMA SumDef ==
    ASSUME NEW D, IsFiniteSet(D), NEW f
    PROVE  \E g : /\ g = [s \in SUBSET D |-> IF s = {} THEN 0 ELSE f[Picked(s)] + g[s \ {Picked(s)}]]
                  /\ SumFunctionOnSet(f, D) = g[D]
<1> DEFINE Sets(n) == {s \in SUBSET D : Cardinality(s) <= n}
           Sum(g, s) == IF s = {} THEN 0 ELSE f[Picked(s)] + g[s \ {Picked(s)}]
           Made(n) == \E g : g = [s \in Sets(n) |-> Sum(g, s)]
           c == Cardinality(D)
<1>1. c \in Nat /\ Sets(c) = SUBSET D
  BY FS_CardinalityType, FS_Subset
<1>2. \A s \in SUBSET D : s # {} => /\ Picked(s) \in s /\ s \ {Picked(s)} \in SUBSET D /\ s \ {Picked(s)} # s
                                    /\ Cardinality(s \ {Picked(s)}) = Cardinality(s) - 1
                                    /\ Cardinality(s) \in Nat /\ Cardinality(s) # 0
  <2> SUFFICES ASSUME NEW s \in SUBSET D, s # {}
               PROVE /\ Picked(s) \in s /\ s \ {Picked(s)} \in SUBSET D /\ s \ {Picked(s)} # s
                     /\ Cardinality(s \ {Picked(s)}) = Cardinality(s) - 1
                     /\ Cardinality(s) \in Nat /\ Cardinality(s) # 0
    OBVIOUS
  <2>1. Cardinality(s) \in Nat /\ Cardinality(s) >= 1
    BY PickedStep
  <2>2. Cardinality(s) # 0
    BY <2>1
  <2> QED
    BY <2>2, PickedStep
<1> HIDE DEF Sum, Sets, Made
<1>a. \A n \in Nat : \A s \in Sets(n) : s \in SUBSET D /\ Cardinality(s) <= n
  BY DEF Sets
<1>b. \A n \in Nat : \A s \in SUBSET D : Cardinality(s) <= n => s \in Sets(n)
  BY DEF Sets
<1>c. \A g, h, s : (s # {} => g[s \ {Picked(s)}] = h[s \ {Picked(s)}]) => Sum(g, s) = Sum(h, s)
  BY DEF Sum
<1>3. Made(c)
  <2> DEFINE Bad == {n \in Nat : ~Made(n)}
  <2>1. SUFFICES ASSUME Bad # {} PROVE FALSE
    BY <1>1
  <2>2. PICK n \in Bad : \A i \in Bad : n <= i
    <3>1. Bad \subseteq Nat
      OBVIOUS
    <3> HIDE DEF Bad
    <3> QED
      BY <2>1, <3>1, LeastExists
  <2>3. n \in Nat /\ ~Made(n)
    BY <2>2
  <2>4. CASE n = 0
    <3> DEFINE g == [s \in Sets(0) |-> 0]
    <3>1. ASSUME NEW s \in Sets(0) PROVE Sum(g, s) = 0
      <4>1. s \in SUBSET D /\ Cardinality(s) <= 0
        BY <1>a
      <4>2. s = {}
        <5>1. ASSUME s # {} PROVE FALSE
          <6>1. Cardinality(s) \in Nat /\ Cardinality(s) # 0
            BY <1>2, <4>1, <5>1
          <6> QED
            BY <4>1, <6>1
        <5> QED
          BY <5>1
      <4> QED
        BY <4>2 DEF Sum
    <3>2. g = [s \in Sets(0) |-> Sum(g, s)]
      BY <3>1
    <3> QED
      BY <2>3, <2>4, <3>2 DEF Made
  <2>5. CASE n # 0
    <3>1. n - 1 \in Nat /\ n - 1 < n
      BY <2>3, <2>5
    <3>2. Made(n - 1)
      BY <2>2, <2>3, <3>1
    <3>3. PICK g : g = [s \in Sets(n - 1) |-> Sum(g, s)]
      BY <3>2 DEF Made
    <3> DEFINE h == [s \in Sets(n) |-> Sum(g, s)]
    <3>4. ASSUME NEW s \in Sets(n), s # {} PROVE g[s \ {Picked(s)}] = h[s \ {Picked(s)}]
      <4> DEFINE t == s \ {Picked(s)}
      <4>1. s \in SUBSET D /\ Cardinality(s) <= n
        BY <1>a, <2>3
      <4>2. t \in SUBSET D /\ Cardinality(t) = Cardinality(s) - 1 /\ Cardinality(s) \in Nat
        BY <1>2, <3>4, <4>1
      <4> HIDE DEF t
      <4>3. Cardinality(t) <= n - 1 /\ Cardinality(t) <= n
        BY <2>3, <4>1, <4>2
      <4>4. t \in Sets(n - 1) /\ t \in Sets(n)
        BY <1>b, <2>3, <3>1, <4>2, <4>3
      <4>5. g[t] = Sum(g, t)
        BY <3>3, <4>4
      <4>6. h[t] = Sum(g, t)
        BY <4>4
      <4> QED
        BY <4>5, <4>6 DEF t
    <3>5. \A s \in Sets(n) : Sum(g, s) = Sum(h, s)
      <4> HIDE DEF h
      <4> QED
        BY <1>c, <3>4
    <3>6. h = [s \in Sets(n) |-> Sum(h, s)]
      BY <3>5
    <3> QED
      BY <2>3, <3>6 DEF Made
  <2> QED
    BY <2>4, <2>5
<1>4. PICK g : g = [s \in SUBSET D |-> Sum(g, s)]
  BY <1>1, <1>3 DEF Made
<1>5. SumFunctionOnSet(f, D) = (CHOOSE h : h = [s \in SUBSET D |-> Sum(h, s)])[D]
  BY DEF SumFunctionOnSet, FoldFunctionOnSet, MapThenFoldSet, Picked, Sum
<1> QED
  BY <1>4, <1>5 DEF Sum

\* What a sum of products is compared with.
Bounded(D, f, h, M) ==
    /\ DOMAIN f = D /\ DOMAIN h = D
    /\ \A x \in D : /\ f[x] \in Int /\ f[x] <= M /\ f[x] <= 1023 * h[x]
                    /\ h[x] \in Nat /\ h[x] <= M

\* The sum of the products of two vectors against the sum of the squares of one of them.
LEMMA SumBounds ==
    ASSUME NEW D, IsFiniteSet(D), NEW f, NEW h, NEW M \in Nat, Bounded(D, f, h, M)
    PROVE  /\ SumFunction(f) \in Int /\ SumFunction(h) \in Nat /\ SumFunction(f) <= 1023 * SumFunction(h)
           /\ SumFunction(f) <= M * Cardinality(D) /\ SumFunction(h) <= M * Cardinality(D)
<1>0. /\ DOMAIN f = D /\ DOMAIN h = D
      /\ \A x \in D : /\ f[x] \in Int /\ f[x] <= M /\ f[x] <= 1023 * h[x]
                      /\ h[x] \in Nat /\ h[x] <= M
  BY DEF Bounded
<1>1. PICK a : /\ a = [s \in SUBSET D |-> IF s = {} THEN 0 ELSE f[Picked(s)] + a[s \ {Picked(s)}]]
               /\ SumFunctionOnSet(f, D) = a[D]
  BY SumDef
<1>2. PICK b : /\ b = [s \in SUBSET D |-> IF s = {} THEN 0 ELSE h[Picked(s)] + b[s \ {Picked(s)}]]
               /\ SumFunctionOnSet(h, D) = b[D]
  BY SumDef
<1> DEFINE Good(s) == /\ a[s] \in Int /\ b[s] \in Nat /\ a[s] <= 1023 * b[s]
                      /\ a[s] <= M * Cardinality(s) /\ b[s] <= M * Cardinality(s)
           G == {s \in SUBSET D : Good(s)}
<1>3. Good({})
  BY <1>1, <1>2, FS_EmptySet
<1>4. ASSUME NEW s \in SUBSET D, s # {}
      PROVE  /\ a[s] = f[Picked(s)] + a[s \ {Picked(s)}] /\ b[s] = h[Picked(s)] + b[s \ {Picked(s)}]
             /\ Picked(s) \in D /\ s \ {Picked(s)} \in SUBSET D
             /\ Cardinality(s \ {Picked(s)}) = Cardinality(s) - 1 /\ Cardinality(s) \in Nat
             /\ Cardinality(s) >= 1
  <2>1. a[s] = f[Picked(s)] + a[s \ {Picked(s)}]
    BY <1>1, <1>4
  <2>2. b[s] = h[Picked(s)] + b[s \ {Picked(s)}]
    BY <1>2, <1>4
  <2>3. Picked(s) \in D
    BY <1>4 DEF Picked
  <2> QED
    BY <1>4, <2>1, <2>2, <2>3, PickedStep
<1>5. ASSUME NEW s \in SUBSET D, s # {}, Good(s \ {Picked(s)}) PROVE Good(s)
  <2>1. PICK t, x : t = s \ {Picked(s)} /\ x = Picked(s)
    OBVIOUS
  <2>2. Good(t)
    BY <1>5, <2>1
  <2>3. a[s] = f[x] + a[t] /\ b[s] = h[x] + b[t] /\ x \in D /\ Cardinality(t) = Cardinality(s) - 1 /\ Cardinality(s) \in Nat
    BY <1>4, <1>5, <2>1
  <2>4. f[x] \in Int /\ f[x] <= M /\ f[x] <= 1023 * h[x] /\ h[x] \in Nat /\ h[x] <= M
    BY <1>0, <2>3
  <2>5. M * Cardinality(s) = (M * Cardinality(t)) + M
    <3>1. \A c \in Nat : M * c \in Int /\ M * (c + 1) = (M * c) + M
      OBVIOUS
    <3>2. Cardinality(t) \in Nat /\ Cardinality(s) = Cardinality(t) + 1
      <4>1. IsFiniteSet(t)
        BY <1>4, <1>5, <2>1, FS_Subset
      <4> QED
        BY <2>3, <4>1, FS_CardinalityType
    <3> QED
      BY <3>1, <3>2
  <2>6. M * Cardinality(s) \in Int /\ M * Cardinality(t) \in Int
    BY <2>3
  <2>7. a[s] \in Int /\ b[s] \in Nat /\ a[s] <= 1023 * b[s]
    BY <2>2, <2>3, <2>4
  <2>8. a[s] <= M * Cardinality(s) /\ b[s] <= M * Cardinality(s)
    <3>1. \A i, j, k, l, m \in Int : i <= m /\ j <= k /\ l = k + m => i + j <= l
      OBVIOUS
    <3>2. f[x] + a[t] <= M * Cardinality(s)
      BY <2>2, <2>4, <2>5, <2>6, <3>1
    <3>3. h[x] + b[t] <= M * Cardinality(s)
      BY <2>2, <2>4, <2>5, <2>6, <3>1
    <3> QED
      BY <2>3, <3>2, <3>3
  <2> QED
    BY <2>7, <2>8
<1> HIDE DEF Good
<1>6. {} \in G /\ \A s \in SUBSET D : s # {} /\ s \ {Picked(s)} \in G => s \in G
  BY <1>3, <1>5
<1>7. Good(D)
  <2>1. \A s \in G : Good(s)
    OBVIOUS
  <2> HIDE DEF G
  <2> QED
    BY <1>6, <2>1, PickedInduction
<1> QED
  BY <1>0, <1>1, <1>2, <1>7 DEF Good, SumFunction

\* Products of features.
ProductFits(a, b) ==
    /\ a * b \in Int /\ a * b <= 1023 * 1023 /\ a * b <= 1023 * (a * a)
    /\ a * a \in Nat /\ a * a <= 1023 * 1023

Small(a) == a \in Int /\ -1023 <= a /\ a <= 1023

\* A product of two features against the square of one of them.
LEMMA ProductBounds ==
    ASSUME NEW a, NEW b, Small(a), Small(b)
    PROVE  ProductFits(a, b)
<1>1. a \in Int /\ b \in Int /\ -1023 <= a /\ a <= 1023 /\ -1023 <= b /\ b <= 1023
  BY DEF Small
<1>2. \A i, j \in Nat : i * j \in Nat
  OBVIOUS
<1>3. \A i, j \in Nat : i <= 1023 /\ j <= 1023 => i * j <= 1023 * i /\ i * j <= 1023 * 1023
  <2> SUFFICES ASSUME NEW i \in Nat, NEW j \in Nat, i <= 1023, j <= 1023 PROVE i * j <= 1023 * i /\ i * j <= 1023 * 1023
    OBVIOUS
  <2>1. i * (1023 - j) \in Nat
    BY <1>2
  <2>2. i * (1023 - j) = (1023 * i) - (i * j)
    OBVIOUS
  <2> QED
    BY <2>1, <2>2
<1>4. \A i \in Nat : i <= i * i
  <2> SUFFICES ASSUME NEW i \in Nat PROVE i <= i * i
    OBVIOUS
  <2>1. CASE i = 0
    BY <2>1
  <2>2. CASE i >= 1
    <3>1. i * (i - 1) \in Nat
      BY <1>2, <2>2
    <3> QED
      BY <3>1
  <2> QED
    BY <2>1, <2>2
<1>5. \A i, j \in Int : (-i) * (-j) = i * j /\ (-i) * j = -(i * j) /\ i * (-j) = -(i * j)
  OBVIOUS
<1>6. PICK p \in Nat : (a = p \/ a = -p) /\ p <= 1023
  <2>1. CASE a >= 0
    BY <1>1, <2>1
  <2>2. CASE a < 0
    <3>1. -a \in Nat /\ a = -(-a) /\ -a <= 1023
      BY <1>1, <2>2
    <3> QED
      BY <3>1
  <2> QED
    BY <1>1, <2>1, <2>2
<1>7. PICK q \in Nat : (b = q \/ b = -q) /\ q <= 1023
  <2>1. CASE b >= 0
    BY <1>1, <2>1
  <2>2. CASE b < 0
    <3>1. -b \in Nat /\ b = -(-b) /\ -b <= 1023
      BY <1>1, <2>2
    <3> QED
      BY <3>1
  <2> QED
    BY <1>1, <2>1, <2>2
<1>8. a * a = p * p
  BY <1>5, <1>6
<1>9. a * b = p * q \/ a * b = -(p * q)
  BY <1>5, <1>6, <1>7
<1>10. p * q \in Nat /\ p * p \in Nat
  BY <1>2
<1>11. p * q <= 1023 * p /\ p * q <= 1023 * 1023 /\ p * p <= 1023 * 1023 /\ p <= p * p
  BY <1>3, <1>4, <1>6, <1>7
<1>12. PICK x \in Nat, y \in Nat, z \in Int : x = p * q /\ y = p * p /\ z = a * b
  BY <1>1, <1>10
<1>13. (z = x \/ z = -x) /\ x <= 1023 * p /\ p <= y /\ x <= 1023 * 1023 /\ y <= 1023 * 1023
  BY <1>9, <1>11, <1>12
<1>14. z <= 1023 * 1023 /\ z <= 1023 * y
  BY <1>13
<1> QED
  BY <1>8, <1>12, <1>13, <1>14 DEF ProductFits

\* The correlation of two vectors in range against their norms.
LEMMA DotBounds ==
    ASSUME NEW D, IsFiniteSet(D), NEW u, NEW v, DOMAIN u = D, DOMAIN v = D,
           \A i \in D : Small(u[i]) /\ Small(v[i])
    PROVE  /\ Dot(u, v) \in Int /\ Dot(u, u) \in Nat /\ Dot(v, v) \in Nat
           /\ Dot(u, v) <= 1023 * Dot(u, u) /\ Dot(u, v) <= 1023 * Dot(v, v)
           /\ Dot(u, v) <= (1023 * 1023) * Cardinality(D)
<1> DEFINE f == [i \in D |-> u[i] * v[i]]
           h == [i \in D |-> u[i] * u[i]]
           g == [i \in D |-> v[i] * v[i]]
<1>1. Dot(u, v) = SumFunction(f) /\ Dot(u, u) = SumFunction(h) /\ Dot(v, v) = SumFunction(g)
  BY DEF Dot
<1>2. PICK M \in Nat : M = 1023 * 1023
  OBVIOUS
<1>3. \A i \in D : Small(u[i]) /\ Small(v[i])
  OBVIOUS
<1>4. Bounded(D, f, h, M)
  <2>1. ASSUME NEW i \in D
        PROVE  f[i] \in Int /\ f[i] <= M /\ f[i] <= 1023 * h[i] /\ h[i] \in Nat /\ h[i] <= M
    <3>1. f[i] = u[i] * v[i] /\ h[i] = u[i] * u[i]
      OBVIOUS
    <3> HIDE DEF f, h
    <3>2. ProductFits(u[i], v[i])
      BY <1>3, ProductBounds
    <3> QED
      BY <1>2, <3>1, <3>2 DEF ProductFits
  <2> QED
    BY <2>1 DEF Bounded
<1>5. Bounded(D, f, g, M)
  <2>1. ASSUME NEW i \in D
        PROVE  f[i] \in Int /\ f[i] <= M /\ f[i] <= 1023 * g[i] /\ g[i] \in Nat /\ g[i] <= M
    <3>1. f[i] = u[i] * v[i] /\ g[i] = v[i] * v[i]
      OBVIOUS
    <3> HIDE DEF f, g
    <3>2. Small(u[i]) /\ Small(v[i])
      BY <1>3
    <3>3. ProductFits(v[i], u[i])
      BY <3>2, ProductBounds
    <3>4. u[i] \in Int /\ v[i] \in Int
      BY <3>2 DEF Small
    <3>5. u[i] * v[i] = v[i] * u[i]
      BY <3>4
    <3>6. f[i] = v[i] * u[i]
      BY <3>1, <3>5
    <3> QED
      BY <1>2, <3>1, <3>3, <3>6 DEF ProductFits
  <2> QED
    BY <2>1 DEF Bounded
<1> HIDE DEF f, g, h
<1>6. /\ SumFunction(f) \in Int /\ SumFunction(h) \in Nat /\ SumFunction(f) <= 1023 * SumFunction(h)
      /\ SumFunction(f) <= M * Cardinality(D)
  BY <1>4, SumBounds
<1>7. SumFunction(g) \in Nat /\ SumFunction(f) <= 1023 * SumFunction(g)
  BY <1>5, SumBounds
<1> QED
  BY <1>1, <1>2, <1>6, <1>7

-----------------------------------------------------------------------------
(* The shifts of the score: the number of significant bits, powers of two,  *)
(* and that nothing is shifted by a negative amount.                        *)

\* The recursion of GetMsb is well defined: up to any number there is one function that satisfies it.
MsbOf(g, x) == IF x = 0 THEN 0 ELSE 1 + g[x \div 2]
MsbUpTo(g, n) == g = [x \in 0 .. n |-> MsbOf(g, x)]

LEMMA Halves == ASSUME NEW x \in Nat, x # 0 PROVE x \div 2 \in Nat /\ x \div 2 < x
OBVIOUS

\* Two such functions agree where both are defined.
LEMMA MsbAgrees ==
    ASSUME NEW n \in Nat, NEW m \in Nat, NEW g, NEW h, MsbUpTo(g, n), MsbUpTo(h, m),
           NEW y \in Nat, y <= n, y <= m
    PROVE  g[y] = h[y]
<1> DEFINE Bad == {x \in Nat : x <= n /\ x <= m /\ g[x] # h[x]}
<1>1. SUFFICES ASSUME Bad # {} PROVE FALSE
  OBVIOUS
<1>2. PICK x \in Bad : \A i \in Bad : x <= i
  <2>1. Bad \subseteq Nat
    OBVIOUS
  <2> HIDE DEF Bad
  <2> QED
    BY <1>1, <2>1, LeastExists
<1>3. x \in Nat /\ x <= n /\ x <= m /\ g[x] # h[x]
  BY <1>2
<1>4. g[x] = MsbOf(g, x) /\ h[x] = MsbOf(h, x)
  <2>1. x \in 0 .. n /\ x \in 0 .. m
    BY <1>3
  <2>2. g[x] = MsbOf(g, x)
    BY <2>1 DEF MsbUpTo
  <2>3. h[x] = MsbOf(h, x)
    BY <2>1 DEF MsbUpTo
  <2> QED
    BY <2>2, <2>3
<1>5. x # 0
  BY <1>3, <1>4 DEF MsbOf
<1>6. PICK z \in Nat : z = x \div 2 /\ z < x
  BY <1>3, <1>5, Halves
<1>7. z <= n /\ z <= m /\ z \notin Bad
  BY <1>2, <1>3, <1>6
<1>8. g[z] = h[z]
  BY <1>7
<1> QED
  BY <1>3, <1>4, <1>5, <1>6, <1>8 DEF MsbOf

\* Up to any number there is one.
LEMMA MsbMade == ASSUME NEW m \in Nat PROVE \E g : MsbUpTo(g, m)
<1> DEFINE Bad == {x \in Nat : ~ \E g : MsbUpTo(g, x)}
<1>1. SUFFICES ASSUME Bad # {} PROVE FALSE
  OBVIOUS
<1>2. PICK n \in Bad : \A i \in Bad : n <= i
  <2>1. Bad \subseteq Nat
    OBVIOUS
  <2> HIDE DEF Bad
  <2> QED
    BY <1>1, <2>1, LeastExists
<1>3. n \in Nat /\ ~ \E g : MsbUpTo(g, n)
  BY <1>2
<1>4. CASE n = 0
  <2> DEFINE g == [x \in 0 .. 0 |-> 0]
  <2>1. \A x \in 0 .. 0 : x = 0
    OBVIOUS
  <2>2. g = [x \in 0 .. 0 |-> MsbOf(g, x)]
    BY <2>1 DEF MsbOf
  <2>3. MsbUpTo(g, 0)
    BY <2>2 DEF MsbUpTo
  <2> QED
    BY <1>3, <1>4, <2>3
<1>5. CASE n # 0
  <2>1. n - 1 \in Nat /\ n - 1 < n /\ n - 1 \notin Bad
    BY <1>2, <1>3, <1>5
  <2>2. PICK g : MsbUpTo(g, n - 1)
    BY <2>1
  <2> DEFINE h == [x \in 0 .. n |-> MsbOf(g, x)]
  <2>3. ASSUME NEW x \in 0 .. n PROVE MsbOf(g, x) = MsbOf(h, x)
    <3>1. CASE x = 0
      BY <3>1 DEF MsbOf
    <3>2. CASE x # 0
      <4>1. PICK z \in Nat : z = x \div 2 /\ z < x
        BY <3>2, Halves
      <4>2. z \in 0 .. n /\ z \in 0 .. (n - 1)
        BY <1>3, <4>1
      <4>3. h[z] = MsbOf(g, z)
        BY <4>2
      <4>4. g[z] = MsbOf(g, z)
        BY <2>2, <4>2 DEF MsbUpTo
      <4> HIDE DEF h
      <4> QED
        BY <3>2, <4>1, <4>3, <4>4 DEF MsbOf
    <3> QED
      BY <3>1, <3>2
  <2>4. h = [x \in 0 .. n |-> MsbOf(h, x)]
    BY <2>3
  <2> HIDE DEF h
  <2>5. MsbUpTo(h, n)
    BY <2>4 DEF MsbUpTo
  <2> QED
    BY <1>3, <2>5
<1> QED
  BY <1>4, <1>5

\* So the function that GetMsb is defined to be satisfies its recursion.
LEMMA MsbDef == GetMsb = [x \in Nat |-> MsbOf(GetMsb, x)]
<1> DEFINE G(n) == CHOOSE g : MsbUpTo(g, n)
           h == [x \in Nat |-> G(x)[x]]
<1>1. \A n \in Nat : MsbUpTo(G(n), n)
  BY MsbMade
<1> HIDE DEF G
<1>2. ASSUME NEW x \in Nat PROVE G(x)[x] = MsbOf(h, x)
  <2>1. G(x)[x] = MsbOf(G(x), x)
    <3>1. x \in 0 .. x
      OBVIOUS
    <3>2. G(x) = [y \in 0 .. x |-> MsbOf(G(x), y)]
      BY <1>1 DEF MsbUpTo
    <3> QED
      BY <3>1, <3>2
  <2>2. CASE x = 0
    BY <2>1, <2>2 DEF MsbOf
  <2>3. CASE x # 0
    <3>1. PICK z \in Nat : z = x \div 2 /\ z < x
      BY <2>3, Halves
    <3>2. z <= z /\ z <= x
      BY <3>1
    <3>3. G(x)[z] = G(z)[z]
      BY <1>1, <3>2, MsbAgrees
    <3>4. h[z] = G(z)[z]
      OBVIOUS
    <3> HIDE DEF h
    <3> QED
      BY <2>1, <2>3, <3>1, <3>3, <3>4 DEF MsbOf
  <2> QED
    BY <2>2, <2>3
<1>3. h = [x \in Nat |-> MsbOf(h, x)]
  BY <1>2
<1> HIDE DEF h
<1>4. GetMsb = CHOOSE g : g = [x \in Nat |-> MsbOf(g, x)]
  BY DEF GetMsb, MsbOf
<1> QED
  BY <1>3, <1>4

\* The recursion of GetMsb.
LEMMA MsbStep ==
    /\ GetMsb[0] = 0
    /\ \A x \in Nat : x # 0 => GetMsb[x] = 1 + GetMsb[x \div 2]
<1>1. ASSUME NEW x \in Nat PROVE GetMsb[x] = MsbOf(GetMsb, x)
  BY MsbDef
<1> QED
  BY <1>1 DEF MsbOf

\* The number of significant bits is a number.
LEMMA MsbType == \A x \in Nat : GetMsb[x] \in Nat
<1> DEFINE Bad == {x \in Nat : GetMsb[x] \notin Nat}
<1>1. SUFFICES ASSUME Bad # {} PROVE FALSE
  OBVIOUS
<1>2. PICK x \in Bad : \A i \in Bad : x <= i
  <2>1. Bad \subseteq Nat
    OBVIOUS
  <2> HIDE DEF Bad
  <2> QED
    BY <1>1, <2>1, LeastExists
<1>3. x \in Nat /\ GetMsb[x] \notin Nat
  BY <1>2
<1>4. x # 0
  BY <1>3, MsbStep
<1>5. PICK z \in Nat : z = x \div 2 /\ z < x
  BY <1>3, <1>4, Halves
<1>6. z \notin Bad
  BY <1>2, <1>3, <1>5
<1>7. GetMsb[x] = 1 + GetMsb[z]
  BY <1>3, <1>4, <1>5, MsbStep
<1> QED
  BY <1>3, <1>6, <1>7

\* It does not fall when the number rises.
LEMMA MsbGrows == ASSUME NEW a \in Nat, NEW b \in Nat, a <= b PROVE GetMsb[a] <= GetMsb[b]
<1> DEFINE Bad == {x \in Nat : \E y \in Nat : x <= y /\ ~(GetMsb[x] <= GetMsb[y])}
<1>1. SUFFICES ASSUME Bad # {} PROVE FALSE
  OBVIOUS
<1>2. PICK x \in Bad : \A i \in Bad : x <= i
  <2>1. Bad \subseteq Nat
    OBVIOUS
  <2> HIDE DEF Bad
  <2> QED
    BY <1>1, <2>1, LeastExists
<1>3. PICK y \in Nat : x \in Nat /\ x <= y /\ ~(GetMsb[x] <= GetMsb[y])
  BY <1>2
<1>4. GetMsb[x] \in Nat /\ GetMsb[y] \in Nat
  BY <1>3, MsbType
<1>5. x # 0 /\ y # 0
  BY <1>3, <1>4, MsbStep
<1>6. PICK z \in Nat : z = x \div 2 /\ z < x
  BY <1>3, <1>5, Halves
<1>7. PICK w \in Nat : w = y \div 2
  BY <1>3, <1>5, Halves
<1>8. z <= w
  BY <1>3, <1>6, <1>7
<1>9. GetMsb[x] = 1 + GetMsb[z] /\ GetMsb[y] = 1 + GetMsb[w]
  BY <1>3, <1>5, <1>6, <1>7, MsbStep
<1>10. GetMsb[z] <= GetMsb[w]
  <2>1. z \notin Bad
    BY <1>2, <1>3, <1>6
  <2> QED
    BY <1>8, <2>1
<1>11. GetMsb[z] \in Nat /\ GetMsb[w] \in Nat
  BY MsbType
<1> QED
  BY <1>3, <1>9, <1>10, <1>11

\* A number divided by 2, 4, 16, 256, 1024 loses at most so many bits.
LEMMA MsbHalf == ASSUME NEW x \in Nat PROVE x \div 2 \in Nat /\ GetMsb[x] <= GetMsb[x \div 2] + 1
<1>1. CASE x = 0
  <2>1. x \div 2 = 0
    BY <1>1
  <2> QED
    BY <1>1, <2>1, MsbStep
<1>2. CASE x # 0
  <2>1. x \div 2 \in Nat
    BY <1>2, Halves
  <2> QED
    BY <1>2, <2>1, MsbStep, MsbType
<1> QED
  BY <1>1, <1>2

\* Several bits less.
LEMMA MsbTwo == ASSUME NEW x \in Nat PROVE x \div 4 \in Nat /\ GetMsb[x] <= GetMsb[x \div 4] + 2
<1>1. PICK y \in Nat : y = x \div 2 /\ GetMsb[x] <= GetMsb[y] + 1
  BY MsbHalf
<1>2. PICK z \in Nat : z = y \div 2 /\ GetMsb[y] <= GetMsb[z] + 1
  BY MsbHalf
<1>3. z = x \div 4
  BY <1>1, <1>2
<1>4. GetMsb[x] \in Nat /\ GetMsb[y] \in Nat /\ GetMsb[z] \in Nat
  BY MsbType
<1> QED
  BY <1>1, <1>2, <1>3, <1>4

LEMMA MsbFour == ASSUME NEW x \in Nat PROVE x \div 16 \in Nat /\ GetMsb[x] <= GetMsb[x \div 16] + 4
<1>1. PICK y \in Nat : y = x \div 4 /\ GetMsb[x] <= GetMsb[y] + 2
  BY MsbTwo
<1>2. PICK z \in Nat : z = y \div 4 /\ GetMsb[y] <= GetMsb[z] + 2
  BY MsbTwo
<1>3. z = x \div 16
  BY <1>1, <1>2
<1>4. GetMsb[x] \in Nat /\ GetMsb[y] \in Nat /\ GetMsb[z] \in Nat
  BY MsbType
<1> QED
  BY <1>1, <1>2, <1>3, <1>4

LEMMA MsbEight == ASSUME NEW x \in Nat PROVE x \div 256 \in Nat /\ GetMsb[x] <= GetMsb[x \div 256] + 8
<1>1. PICK y \in Nat : y = x \div 16 /\ GetMsb[x] <= GetMsb[y] + 4
  BY MsbFour
<1>2. PICK z \in Nat : z = y \div 16 /\ GetMsb[y] <= GetMsb[z] + 4
  BY MsbFour
<1>3. z = x \div 256
  BY <1>1, <1>2
<1>4. GetMsb[x] \in Nat /\ GetMsb[y] \in Nat /\ GetMsb[z] \in Nat
  BY MsbType
<1> QED
  BY <1>1, <1>2, <1>3, <1>4

LEMMA MsbTen == ASSUME NEW x \in Nat PROVE x \div 1024 \in Nat /\ GetMsb[x] <= GetMsb[x \div 1024] + 10
<1>1. PICK y \in Nat : y = x \div 4 /\ GetMsb[x] <= GetMsb[y] + 2
  BY MsbTwo
<1>2. PICK z \in Nat : z = y \div 256 /\ GetMsb[y] <= GetMsb[z] + 8
  BY MsbEight
<1>3. z = x \div 1024
  BY <1>1, <1>2
<1>4. GetMsb[x] \in Nat /\ GetMsb[y] \in Nat /\ GetMsb[z] \in Nat
  BY MsbType
<1> QED
  BY <1>1, <1>2, <1>3, <1>4

TwoTo(k) == 2^k

\* Powers of two, as far as the shifts go.
LEMMA PowerStep == \A k \in 0 .. 19 : TwoTo(k) \in Nat /\ TwoTo(k) >= 1 /\ TwoTo(k + 1) = 2 * TwoTo(k)
<1>0. TwoTo(0) = 1
  BY DEF TwoTo
<1>1. TwoTo(1) = 2
  BY DEF TwoTo
<1>2. TwoTo(2) = 4
  BY DEF TwoTo
<1>3. TwoTo(3) = 8
  BY DEF TwoTo
<1>4. TwoTo(4) = 16
  BY DEF TwoTo
<1>5. TwoTo(5) = 32
  BY DEF TwoTo
<1>6. TwoTo(6) = 64
  BY DEF TwoTo
<1>7. TwoTo(7) = 128
  BY DEF TwoTo
<1>8. TwoTo(8) = 256
  BY DEF TwoTo
<1>9. TwoTo(9) = 512
  BY DEF TwoTo
<1>10. TwoTo(10) = 1024
  BY DEF TwoTo
<1>11. TwoTo(11) = 2048
  BY DEF TwoTo
<1>12. TwoTo(12) = 4096
  BY DEF TwoTo
<1>13. TwoTo(13) = 8192
  BY DEF TwoTo
<1>14. TwoTo(14) = 16384
  BY DEF TwoTo
<1>15. TwoTo(15) = 32768
  BY DEF TwoTo
<1>16. TwoTo(16) = 65536
  BY DEF TwoTo
<1>17. TwoTo(17) = 131072
  BY DEF TwoTo
<1>18. TwoTo(18) = 262144
  BY DEF TwoTo
<1>19. TwoTo(19) = 524288
  BY DEF TwoTo
<1>20. TwoTo(20) = 1048576
  BY DEF TwoTo
<1>21. ASSUME NEW k \in 0 .. 19, NEW j, j = k + 1 PROVE TwoTo(k) \in Nat /\ TwoTo(k) >= 1 /\ TwoTo(j) = 2 * TwoTo(k)
  BY <1>0, <1>1, <1>2, <1>3, <1>4, <1>5, <1>6, <1>7, <1>8, <1>9, <1>10, <1>11, <1>12, <1>13, <1>14, <1>15, <1>16, <1>17, <1>18, <1>19, <1>20, <1>21
<1> QED
  BY <1>21

\* The powers of two that the shifts need are numbers.
LEMMA Powers == \A k \in 0 .. 16 : 2^k \in Nat /\ 2^k >= 1
<1>1. ASSUME NEW k \in 0 .. 16 PROVE TwoTo(k) \in Nat /\ TwoTo(k) >= 1
  <2>1. k \in 0 .. 19
    OBVIOUS
  <2> QED
    BY <2>1, PowerStep
<1> QED
  BY <1>1 DEF TwoTo

\* No shift of the correlation of 256 features in range is negative, and it stays in 32 bits.
Correlation(corr, norm) ==
    corr \in Nat /\ norm \in Nat /\ norm >= 1 /\ corr <= 1023 * norm /\ corr <= (1023 * 1023) * 256

LEMMA ShiftFits ==
    ASSUME NEW corr, NEW norm, Correlation(corr, norm)
    PROVE  Shift(corr, norm) \in 4 .. 16 /\ Shift(corr, norm) <= 32 - GetMsb[corr]
<1>1. corr \in Nat /\ norm \in Nat /\ corr <= 1023 * norm /\ corr <= (1023 * 1023) * 256
  BY DEF Correlation
<1>2. PICK y \in Nat : y = corr \div 1024 /\ GetMsb[corr] <= GetMsb[y] + 10
  BY <1>1, MsbTen
<1>3. PICK z \in Nat : z = y \div 1024 /\ GetMsb[y] <= GetMsb[z] + 10
  BY MsbTen
<1>4. y <= norm /\ z <= 255
  BY <1>1, <1>2, <1>3
<1>5. GetMsb[y] <= GetMsb[norm]
  BY <1>1, <1>4, MsbGrows
<1>6. GetMsb[z] <= 8
  <2>1. GetMsb[z] <= GetMsb[z \div 256] + 8
    BY MsbEight
  <2>2. z \div 256 = 0
    BY <1>4
  <2> QED
    BY <2>1, <2>2, MsbStep
<1>7. GetMsb[corr] \in Nat /\ GetMsb[norm] \in Nat /\ GetMsb[y] \in Nat /\ GetMsb[z] \in Nat
  BY <1>1, MsbType
<1>8. Shift(corr, norm) = AtMost(16 - AtLeast(GetMsb[corr] - GetMsb[norm], 0), 32 - GetMsb[corr])
  BY <1>1 DEF Shift
<1> QED
  BY <1>2, <1>3, <1>5, <1>6, <1>7, <1>8 DEF AtMost, AtLeast

\* The shifted quotient is a number.
LEMMA ShiftDivideIs ==
    ASSUME NEW u \in Nat, NEW shift \in 0 .. 16, NEW n \in Nat, n >= 1
    PROVE  ShiftDivide(u, shift, n) \in Nat
<1> DEFINE half == shift \div 2
           rest == shift - half
           first == (u % n) * 2^half
           tail == (first % n) * 2^rest
<1>1. half \in 0 .. 16 /\ rest \in 0 .. 16 /\ shift \in Nat
  OBVIOUS
<1>2. 2^half \in Nat /\ 2^rest \in Nat /\ 2^shift \in Nat
  BY <1>1, Powers
<1>3. \A i, j \in Nat : i * j \in Nat
  OBVIOUS
<1>4. \A i \in Nat : i % n \in Nat /\ i \div n \in Nat
  OBVIOUS
<1>5. ShiftDivide(u, shift, n) = ((u \div n) * 2^shift) + ((first \div n) * 2^rest) + (tail \div n)
  BY <1>1 DEF ShiftDivide
<1>6. first \in Nat
  BY <1>2, <1>3, <1>4
<1> HIDE DEF first
<1>7. tail \in Nat
  BY <1>2, <1>3, <1>4, <1>6
<1> HIDE DEF tail, rest, half
<1>8. (u \div n) * 2^shift \in Nat /\ (first \div n) * 2^rest \in Nat /\ tail \div n \in Nat
  BY <1>2, <1>3, <1>4, <1>6, <1>7
<1> QED
  BY <1>5, <1>8

\* The product shifted back is a number.
LEMMA MultiplyShiftIs ==
    ASSUME NEW a \in Nat, NEW b \in Nat, NEW back \in -4 .. 20
    PROVE  MultiplyShift(a, b, back) \in Nat
<1> DEFINE ah == a \div 256
           al == a % 256
           bh == b \div 256
           bl == b % 256
           middle == (ah * bl) + (al * bh) + ((al * bl) \div 256)
           high == ((ah * bh) + (middle \div 256)) % 65536
           low == (256 * (middle % 256)) + ((al * bl) % 256)
<1>1. ah \in Nat /\ al \in Nat /\ bh \in Nat /\ bl \in Nat /\ back \in Int
  OBVIOUS
<1>2. MultiplyShift(a, b, back) =
        CASE back > 16      -> high \div 2^(back - 16)
          [] back \in 0..16 -> (high * 2^(16 - back)) + (low \div 2^back)
          [] OTHER          -> ((high * 65536) + low) * 2^(-back)
  BY <1>1 DEF MultiplyShift
<1> HIDE DEF ah, al, bh, bl
<1>3. \A i, j \in Nat : i * j \in Nat
  OBVIOUS
<1>4. \A i, j \in Nat : j >= 1 => i \div j \in Nat
  OBVIOUS
<1>5. ah * bl \in Nat /\ al * bh \in Nat /\ al * bl \in Nat /\ ah * bh \in Nat
  BY <1>1, <1>3
<1>6. middle \in Nat
  BY <1>5
<1> HIDE DEF middle
<1>7. high \in Nat /\ low \in Nat
  BY <1>5, <1>6
<1> HIDE DEF high, low
<1>8. CASE back > 16
  <2>1. back - 16 \in 0 .. 16
    BY <1>1, <1>8
  <2>2. 2^(back - 16) \in Nat /\ 2^(back - 16) >= 1
    BY <2>1, Powers
  <2>3. high \div 2^(back - 16) \in Nat
    BY <1>4, <1>7, <2>2
  <2> QED
    BY <1>2, <1>8, <2>3
<1>9. CASE back \in 0 .. 16
  <2>1. back \in 0 .. 16 /\ 16 - back \in 0 .. 16 /\ ~(back > 16)
    BY <1>9
  <2>2. 2^back \in Nat /\ 2^back >= 1 /\ 2^(16 - back) \in Nat
    BY <2>1, Powers
  <2>3. high * 2^(16 - back) \in Nat /\ low \div 2^back \in Nat
    BY <1>3, <1>4, <1>7, <2>2
  <2> QED
    BY <1>2, <2>1, <2>3
<1>10. CASE back < 0
  <2>1. -back \in 0 .. 16 /\ ~(back > 16) /\ back \notin 0 .. 16
    BY <1>1, <1>10
  <2>2. 2^(-back) \in Nat
    BY <2>1, Powers
  <2>3. (high * 65536) + low \in Nat
    BY <1>7
  <2>4. ((high * 65536) + low) * 2^(-back) \in Nat
    BY <1>3, <2>2, <2>3
  <2> QED
    BY <1>2, <2>1, <2>4
<1> QED
  BY <1>1, <1>8, <1>9, <1>10

\* The score of two vectors of up to 256 features in range is a number: nothing is shifted by a
\* negative amount or divided by zero.
LEMMA ScoreIs ==
    ASSUME NEW corr, NEW n1, NEW n2, Correlation(corr, n1), Correlation(corr, n2)
    PROVE  Score(corr, n1, n2) \in Nat
<1>1. corr \in Nat /\ n1 \in Nat /\ n2 \in Nat /\ n1 >= 1 /\ n2 >= 1
  BY DEF Correlation
<1>2. PICK s1 \in 4 .. 16, s2 \in 4 .. 16 : s1 = Shift(corr, n1) /\ s2 = Shift(corr, n2)
  BY ShiftFits
<1>3. PICK d1 \in Nat, d2 \in Nat : d1 = ShiftDivide(corr, s1, n1) /\ d2 = ShiftDivide(corr, s2, n2)
  <2>1. s1 \in 0 .. 16 /\ s2 \in 0 .. 16
    OBVIOUS
  <2>2. ShiftDivide(corr, s1, n1) \in Nat /\ ShiftDivide(corr, s2, n2) \in Nat
    BY <1>1, <2>1, ShiftDivideIs
  <2> QED
    BY <2>2
<1>4. s1 + s2 - 12 \in -4 .. 20
  OBVIOUS
<1>5. MultiplyShift(d1, d2, s1 + s2 - 12) \in Nat
  BY <1>4, MultiplyShiftIs
<1>6. Score(corr, n1, n2) = Grade(corr, n1, n2, Shift(corr, n1), Shift(corr, n2))
  BY <1>1 DEF Score
<1> QED
  BY <1>2, <1>3, <1>5, <1>6 DEF Grade

\* They multiply.
LEMMA PowerSum ==
    ASSUME NEW i \in Nat, NEW j \in Nat, i + j <= 20
    PROVE  TwoTo(i + j) = TwoTo(i) * TwoTo(j) /\ TwoTo(i) \in Nat /\ TwoTo(i) >= 1
<1> DEFINE Bad == {x \in Nat : i + x <= 20 /\ TwoTo(i + x) # TwoTo(i) * TwoTo(x)}
<1>0. TwoTo(0) = 1 /\ TwoTo(20) \in Nat /\ TwoTo(20) >= 1
  BY DEF TwoTo
<1>1. TwoTo(i) \in Nat /\ TwoTo(i) >= 1
  <2>1. CASE i = 20
    BY <1>0, <2>1
  <2>2. CASE i # 20
    <3>1. i \in 0 .. 19
      BY <2>2
    <3> QED
      BY <3>1, PowerStep
  <2> QED
    BY <2>1, <2>2
<1>2. Bad = {}
  <2>1. SUFFICES ASSUME Bad # {} PROVE FALSE
    OBVIOUS
  <2>2. PICK x \in Bad : \A y \in Bad : x <= y
    <3>1. Bad \subseteq Nat
      OBVIOUS
    <3> HIDE DEF Bad
    <3> QED
      BY <2>1, <3>1, LeastExists
  <2>3. x \in Nat /\ i + x <= 20 /\ TwoTo(i + x) # TwoTo(i) * TwoTo(x)
    BY <2>2
  <2>4. x # 0
    <3>1. ASSUME x = 0 PROVE FALSE
      <4>1. i + x = i /\ TwoTo(x) = 1
        BY <1>0, <3>1
      <4>2. TwoTo(i) * 1 = TwoTo(i)
        BY <1>1
      <4> QED
        BY <2>3, <4>1, <4>2
    <3> QED
      BY <3>1
  <2>5. PICK z \in Nat : z = x - 1 /\ z < x /\ z + 1 = x /\ (i + z) + 1 = i + x /\ i + z \in 0 .. 19 /\ z \in 0 .. 19
    BY <2>3, <2>4
  <2>6. TwoTo(i + z) = TwoTo(i) * TwoTo(z)
    <3>1. z \notin Bad
      BY <2>2, <2>3, <2>5
    <3> QED
      BY <2>5, <3>1
  <2>7. TwoTo((i + z) + 1) = 2 * TwoTo(i + z) /\ TwoTo(z + 1) = 2 * TwoTo(z) /\ TwoTo(z) \in Nat
    BY <2>5, PowerStep
  <2>8. TwoTo(i) * (2 * TwoTo(z)) = 2 * (TwoTo(i) * TwoTo(z))
    BY <1>1, <2>7
  <2> QED
    BY <2>3, <2>5, <2>6, <2>7, <2>8
<1> QED
  BY <1>1, <1>2

\* The two shifts and the shift back.
LEMMA ShiftsBack ==
    ASSUME NEW s \in 4 .. 16, NEW t \in 4 .. 16, NEW back, back = s + t - 12
    PROVE  /\ back >= 0 => TwoTo(s) * TwoTo(t) = 4096 * TwoTo(back)
           /\ back < 0 => (TwoTo(s) * TwoTo(t)) * TwoTo(-back) = 4096
<1>0. TwoTo(12) = 4096
  BY DEF TwoTo
<1>1. s \in Nat /\ t \in Nat /\ back \in Int
  OBVIOUS
<1>2. ASSUME NEW i \in Nat, NEW j \in Nat, NEW k, i + j <= 20, k = i + j
      PROVE  TwoTo(k) = TwoTo(i) * TwoTo(j) /\ TwoTo(i) \in Nat
  BY <1>2, PowerSum
<1>3. \A i, j, k \in Nat : (i * j) * k = i * (j * k)
  OBVIOUS
<1>4. \A i \in Nat : i <= 20 => TwoTo(i) \in Nat
  BY PowerSum
<1>5. CASE back < 0
  <2>1. PICK m \in Nat : m = -back /\ s + t <= 20 /\ s + t + m = 12
    BY <1>5
  <2>2. TwoTo(s + t) = TwoTo(s) * TwoTo(t)
    BY <1>1, <1>2, <2>1
  <2>3. TwoTo(12) = TwoTo(s + t) * TwoTo(m)
    <3>1. s + t \in Nat /\ (s + t) + m <= 20 /\ 12 = (s + t) + m
      BY <2>1
    <3> QED
      BY <1>2, <3>1
  <2> QED
    BY <1>0, <1>5, <2>1, <2>2, <2>3
<1>6. CASE back >= 0 /\ s <= 12
  <2>1. PICK m \in Nat : m = 12 - s /\ m + back <= 20 /\ m + back = t /\ s + m = 12 /\ back \in Nat /\ s + m <= 20
    BY <1>6
  <2>2. TwoTo(t) = TwoTo(m) * TwoTo(back)
    BY <1>2, <2>1
  <2>3. TwoTo(12) = TwoTo(s) * TwoTo(m)
    BY <1>1, <1>2, <2>1
  <2>4. TwoTo(s) \in Nat /\ TwoTo(m) \in Nat /\ TwoTo(back) \in Nat
    <3>1. s <= 20 /\ m <= 20 /\ back <= 20
      BY <2>1
    <3> QED
      BY <1>1, <1>4, <2>1, <3>1
  <2>5. TwoTo(s) * (TwoTo(m) * TwoTo(back)) = (TwoTo(s) * TwoTo(m)) * TwoTo(back)
    BY <1>3, <2>4
  <2> QED
    BY <1>0, <1>6, <2>2, <2>3, <2>5
<1>7. CASE back >= 0 /\ s > 12
  <2>1. PICK m \in Nat : m = s - 12 /\ 12 + m = s /\ m + t = back /\ 12 + m <= 20 /\ m + t <= 20
    BY <1>7
  <2>2. TwoTo(s) = TwoTo(12) * TwoTo(m)
    BY <1>2, <2>1
  <2>3. TwoTo(back) = TwoTo(m) * TwoTo(t)
    BY <1>1, <1>2, <2>1
  <2>4. TwoTo(t) \in Nat /\ TwoTo(m) \in Nat
    <3>1. t <= 20 /\ m <= 20
      BY <2>1
    <3> QED
      BY <1>1, <1>4, <2>1, <3>1
  <2>5. (4096 * TwoTo(m)) * TwoTo(t) = 4096 * (TwoTo(m) * TwoTo(t))
    BY <1>3, <2>4
  <2> QED
    BY <1>0, <1>7, <2>2, <2>3, <2>5
<1> QED
  BY <1>1, <1>5, <1>6, <1>7

\* A division that shifts in two halves is at most the quotient.
LEMMA DivideMost ==
    ASSUME NEW u \in Nat, NEW shift \in 4 .. 16, NEW n \in Nat, n >= 1
    PROVE  ShiftDivide(u, shift, n) * n <= u * TwoTo(shift)
<1>1. PICK half \in Nat, rest \in Nat : half = shift \div 2 /\ rest = shift - half /\ half + rest = shift /\ half + rest <= 20
  OBVIOUS
<1>2. TwoTo(shift) = TwoTo(half) * TwoTo(rest) /\ TwoTo(half) \in Nat
  BY <1>1, PowerSum
<1>3. TwoTo(rest) \in Nat
  <2>1. rest + half <= 20
    BY <1>1
  <2> QED
    BY <2>1, PowerSum
<1>4. PICK h \in Nat, r \in Nat : h = TwoTo(half) /\ r = TwoTo(rest)
  BY <1>2, <1>3
<1>5. \A i \in Nat : i \div n \in Nat /\ i % n \in Nat /\ i = ((i \div n) * n) + (i % n)
  OBVIOUS
<1>6. \A i, j \in Nat : i * j \in Nat
  OBVIOUS
<1>7. PICK first \in Nat : first = (u % n) * h
  BY <1>5, <1>6
<1>8. PICK tail \in Nat : tail = (first % n) * r
  BY <1>5, <1>6
<1>9. ShiftDivide(u, shift, n) = ((u \div n) * (h * r)) + ((first \div n) * r) + (tail \div n)
  BY <1>1, <1>2, <1>4, <1>7, <1>8 DEF ShiftDivide, TwoTo
<1>a. PICK q \in Nat, p \in Nat : q = u \div n /\ p = u % n /\ u = (q * n) + p
  BY <1>5
<1>b. PICK a \in Nat, b \in Nat : a = first \div n /\ b = first % n /\ first = (a * n) + b
  BY <1>5
<1>c. PICK c \in Nat, e \in Nat : c = tail \div n /\ e = tail % n /\ tail = (c * n) + e
  BY <1>5
<1>10. /\ q = u \div n /\ p = u % n /\ u = (q * n) + p
       /\ a = first \div n /\ b = first % n /\ first = (a * n) + b
       /\ c = tail \div n /\ tail = (c * n) + e
  BY <1>a, <1>b, <1>c
<1>11. first = p * h /\ tail = b * r
  BY <1>7, <1>8, <1>10
<1>12. ((q * (h * r)) + (a * r) + c) * n = ((q * n) * (h * r)) + ((a * n) * r) + (c * n)
  OBVIOUS
<1>13. c * n <= b * r /\ b * r \in Nat /\ c * n \in Nat
  <2>1. tail = (c * n) + e /\ c * n \in Nat
    BY <1>6, <1>10
  <2> QED
    BY <1>6, <1>11, <2>1
<1>14. ((a * n) * r) + (b * r) = (p * h) * r
  <2>1. ((a * n) * r) + (b * r) = ((a * n) + b) * r
    OBVIOUS
  <2> QED
    BY <1>10, <1>11, <2>1
<1>15. ((q * n) * (h * r)) + ((p * h) * r) = u * (h * r)
  <2>1. ((q * n) * (h * r)) + ((p * h) * r) = ((q * n) + p) * (h * r)
    OBVIOUS
  <2> QED
    BY <1>10, <2>1
<1>16. PICK x \in Nat, y \in Nat, z \in Nat, w \in Nat, v \in Nat :
         x = (q * n) * (h * r) /\ y = (a * n) * r /\ z = c * n /\ w = b * r /\ v = u * (h * r)
  BY <1>6
<1>17. (p * h) * r = y + w /\ x + ((p * h) * r) = v /\ z <= w
  BY <1>13, <1>14, <1>15, <1>16
<1>18. x + y + z <= v
  BY <1>17
<1> QED
  BY <1>2, <1>4, <1>9, <1>10, <1>12, <1>16, <1>18

\* The product shifted back is at most that of the numbers.
LEMMA BackMost ==
    ASSUME NEW a \in Nat, NEW b \in Nat, NEW back \in -4 .. 20
    PROVE  \E m \in Nat : /\ m <= a * b
                          /\ back >= 0 => MultiplyShift(a, b, back) * TwoTo(back) <= m
                          /\ back < 0 => MultiplyShift(a, b, back) = m * TwoTo(-back)
<1>1. \A i, j \in Nat : i * j \in Nat
  OBVIOUS
<1>2. \A i \in Nat : i \div 256 \in Nat /\ i % 256 \in Nat /\ i = (256 * (i \div 256)) + (i % 256)
  OBVIOUS
<1> DEFINE ah == a \div 256
           al == a % 256
           bh == b \div 256
           bl == b % 256
           hh == ah * bh
           hl == ah * bl
           lh == al * bh
           ll == al * bl
           middle == hl + lh + (ll \div 256)
           top == hh + (middle \div 256)
           high == top % 65536
           low == (256 * (middle % 256)) + (ll % 256)
<1>10. MultiplyShift(a, b, back) =
         CASE back > 16      -> high \div TwoTo(back - 16)
           [] back \in 0..16 -> (high * TwoTo(16 - back)) + (low \div TwoTo(back))
           [] OTHER          -> ((high * 65536) + low) * TwoTo(-back)
  BY DEF MultiplyShift, TwoTo
<1>3. ah \in Nat /\ al \in Nat /\ bh \in Nat /\ bl \in Nat /\ a = (256 * ah) + al /\ b = (256 * bh) + bl
  BY <1>2
<1> HIDE DEF ah, al, bh, bl
<1>4. hh \in Nat /\ hl \in Nat /\ lh \in Nat /\ ll \in Nat /\ hh = ah * bh /\ hl = ah * bl /\ lh = al * bh /\ ll = al * bl
  BY <1>1, <1>3
<1> HIDE DEF hh, hl, lh, ll
<1>5. middle \in Nat /\ middle = hl + lh + (ll \div 256)
  BY <1>2, <1>4
<1>6. top \in Nat /\ high \in Nat /\ top = hh + (middle \div 256) /\ high <= top
  <2>1. top \in Nat
    BY <1>2, <1>4, <1>5
  <2> HIDE DEF top
  <2>2. high \in Nat /\ high <= top
    BY <2>1
  <2> QED
    BY <2>1, <2>2 DEF top
<1>7. low \in Nat /\ low = (256 * (middle % 256)) + (ll % 256)
  BY <1>2, <1>4, <1>5
<1> HIDE DEF middle, top, high, low
<1>8. a * b = (65536 * top) + low
  <2>1. a * b = (65536 * hh) + (256 * (hl + lh)) + ll
    BY <1>3, <1>4
  <2>2. PICK x \in Nat, y \in Nat : x = ll \div 256 /\ y = ll % 256 /\ ll = (256 * x) + y
    BY <1>2, <1>4
  <2>3. PICK z \in Nat, w \in Nat : z = middle \div 256 /\ w = middle % 256 /\ middle = (256 * z) + w
    BY <1>2, <1>5
  <2>4. middle = hl + lh + x /\ top = hh + z /\ low = (256 * w) + y
    BY <1>5, <1>6, <1>7, <2>2, <2>3
  <2>5. PICK e \in Nat, f \in Nat, g \in Nat, h \in Nat : e = hh /\ f = hl /\ g = lh /\ h = ll
    BY <1>4
  <2>6. /\ h = (256 * x) + y /\ middle = (256 * z) + w
        /\ middle = f + g + x /\ top = e + z /\ low = (256 * w) + y
    BY <2>2, <2>3, <2>4, <2>5
  <2>7. (65536 * e) + (256 * (f + g)) + h = (65536 * top) + low
    BY <2>6
  <2> QED
    BY <2>1, <2>5, <2>7
<1>9. PICK m \in Nat : m = (high * 65536) + low /\ m <= a * b
  <2>1. (high * 65536) + low \in Nat /\ (high * 65536) + low <= (65536 * top) + low
    BY <1>6, <1>7
  <2> QED
    BY <1>8, <2>1
<1>11. \A i \in Nat : i <= 20 => TwoTo(i) \in Nat /\ TwoTo(i) >= 1
  BY PowerSum
<1>12. TwoTo(16) = 65536
  BY DEF TwoTo
<1>13. \A i, j \in Nat : j >= 1 => i \div j \in Nat /\ (i \div j) * j <= i
  OBVIOUS
<1>14. CASE back > 16
  <2>1. PICK k \in Nat : k = back - 16 /\ 16 + k = back /\ 16 + k <= 20 /\ k <= 20 /\ back <= 20 /\ back \in Nat
    BY <1>14
  <2>2. TwoTo(back) = 65536 * TwoTo(k)
    BY <1>12, <2>1, PowerSum
  <2>3. PICK p \in Nat : p = TwoTo(k) /\ p >= 1
    BY <1>11, <2>1
  <2>4. PICK q \in Nat : q = high \div p /\ q * p <= high
    <3>1. high \div p \in Nat /\ (high \div p) * p <= high
      BY <1>6, <1>7, <1>13, <2>3
    <3> QED
      BY <3>1
  <2>5. q * (65536 * p) = 65536 * (q * p) /\ q * p \in Nat
    OBVIOUS
  <2>6. q * (65536 * p) <= m
    BY <1>6, <1>7, <1>9, <2>4, <2>5
  <2>7. MultiplyShift(a, b, back) = q
    BY <1>10, <1>14, <2>1, <2>3, <2>4
  <2> QED
    BY <1>9, <2>1, <2>2, <2>3, <2>6, <2>7
<1>15. CASE back \in 0 .. 16
  <2>1. PICK k \in Nat : k = 16 - back /\ k + back = 16 /\ k + back <= 20 /\ back \in Nat /\ ~(back > 16) /\ k <= 20 /\ back <= 20
    BY <1>15
  <2>2. TwoTo(k) * TwoTo(back) = 65536
    BY <1>12, <2>1, PowerSum
  <2>3. PICK p \in Nat, w \in Nat : p = TwoTo(back) /\ p >= 1 /\ w = TwoTo(k)
    BY <1>11, <2>1
  <2>4. PICK q \in Nat : q = low \div p /\ q * p <= low
    <3>1. low \div p \in Nat /\ (low \div p) * p <= low
      BY <1>6, <1>7, <1>13, <2>3
    <3> QED
      BY <3>1
  <2>5. ((high * w) + q) * p = (high * (w * p)) + (q * p) /\ q * p \in Nat
    BY <1>6
  <2>6. ((high * w) + q) * p <= m
    <3>1. w * p = 65536
      BY <2>2, <2>3
    <3> QED
      BY <1>6, <1>7, <1>9, <2>4, <2>5, <3>1
  <2>7. MultiplyShift(a, b, back) = (high * w) + q
    BY <1>10, <1>15, <2>1, <2>3, <2>4
  <2> QED
    BY <1>9, <2>1, <2>3, <2>6, <2>7
<1>16. CASE back < 0
  <2>1. back \notin 0 .. 16 /\ ~(back > 16) /\ ~(back >= 0)
    BY <1>16
  <2>2. MultiplyShift(a, b, back) = m * TwoTo(-back)
    BY <1>9, <1>10, <2>1
  <2> QED
    BY <1>9, <2>1, <2>2
<1> QED
  BY <1>14, <1>15, <1>16

-----------------------------------------------------------------------------
(* The score's bounds: the correlation is at most the product of the norms,  *)
(* so that the product of the two quotients stays below its scale.           *)

\* Products in order.
LEMMA MulBoth == \A i, j \in Int, k \in Nat : i <= j => i * k <= j * k
<1> SUFFICES ASSUME NEW i \in Int, NEW j \in Int, NEW k \in Nat, i <= j PROVE i * k <= j * k
  OBVIOUS
<1>1. \A r, s \in Nat : r * s \in Nat
  OBVIOUS
<1>2. (j - i) * k \in Nat
  <2>1. j - i \in Nat
    OBVIOUS
  <2> QED
    BY <1>1, <2>1
<1>3. (j - i) * k = (j * k) - (i * k)
  OBVIOUS
<1> QED
  BY <1>2, <1>3

\* And the other way round.
LEMMA MulCancel == ASSUME NEW i \in Int, NEW j \in Int, NEW k \in Nat, k >= 1, i * k <= j * k PROVE i <= j
<1> SUFFICES ASSUME i > j PROVE FALSE
  OBVIOUS
<1>1. (j + 1) * k <= i * k
  <2>1. j + 1 <= i /\ j + 1 \in Int
    OBVIOUS
  <2> QED
    BY <2>1, MulBoth
<1>2. (j + 1) * k = (j * k) + k
  OBVIOUS
<1>3. PICK x \in Int : x = j * k
  OBVIOUS
<1>4. PICK y \in Int : y = i * k
  OBVIOUS
<1> QED
  BY <1>1, <1>2, <1>3, <1>4

\* Squares of numbers in order.
LEMMA SquareLeast == ASSUME NEW i \in Int, NEW j \in Nat, i * i <= j * j PROVE i <= j
<1> SUFFICES ASSUME i > j PROVE FALSE
  OBVIOUS
<1>1. PICK d \in Nat : i = j + d /\ d >= 1
  <2>1. i - j \in Nat /\ i = j + (i - j) /\ i - j >= 1
    OBVIOUS
  <2> QED
    BY <2>1
<1>2. i * i = (j * j) + (2 * (j * d)) + (d * d)
  BY <1>1
<1>3. \A x, y \in Nat : x * y \in Nat
  OBVIOUS
<1>4. j * d \in Nat /\ j * j \in Nat /\ d * d \in Nat /\ d * d >= 1
  <2>1. d * d = ((d - 1) * d) + d
    BY <1>1
  <2>2. (d - 1) * d \in Nat
    BY <1>1, <1>3
  <2> QED
    BY <1>1, <1>3, <2>1, <2>2
<1> QED
  BY <1>2, <1>4

\* One more product under the inequality of Cauchy and Schwarz.
LEMMA CauchyStep ==
    ASSUME NEW a \in Int, NEW p \in Nat, NEW q \in Nat, a * a <= p * q, NEW x \in Int, NEW y \in Int
    PROVE  (a + (x * y)) * (a + (x * y)) <= (p + (x * x)) * (q + (y * y))
<1>1. PICK z \in Int, v \in Int, w \in Int : z = x * y /\ v = x * x /\ w = y * y
  OBVIOUS
<1>2. v \in Nat /\ w \in Nat
  <2>1. \A i \in Int : i * i \in Nat
    OBVIOUS
  <2> QED
    BY <1>1, <2>1
<1>3. z * z = v * w
  BY <1>1
<1>4. PICK m \in Nat, n \in Nat : m = p * w /\ n = q * v
  <2>1. \A i, j \in Nat : i * j \in Nat
    OBVIOUS
  <2> QED
    BY <1>2, <2>1
<1>5. (2 * (a * z)) * (2 * (a * z)) <= (m + n) * (m + n)
  <2>1. (2 * (a * z)) * (2 * (a * z)) = 4 * ((a * a) * (z * z))
    OBVIOUS
  <2>2. (a * a) * (v * w) <= (p * q) * (v * w)
    <3>2. v * w \in Nat
      <4>1. \A r, s \in Nat : r * s \in Nat
        OBVIOUS
      <4> QED
        BY <1>2, <4>1
    <3>3. PICK i \in Int, j \in Int, k \in Nat : i = a * a /\ j = p * q /\ k = v * w
      BY <3>2
    <3> QED
      BY <3>3, MulBoth
  <2>3. (p * q) * (v * w) = m * n
    BY <1>2, <1>4
  <2>4. 4 * (m * n) <= (m + n) * (m + n)
    <3>1. (m + n) * (m + n) = (4 * (m * n)) + ((m - n) * (m - n))
      OBVIOUS
    <3>2. (m - n) * (m - n) \in Nat
      <4>1. \A i \in Int : i * i \in Nat
        OBVIOUS
      <4> QED
        BY <4>1
    <3>3. PICK r \in Int, s \in Nat, k \in Int : r = m * n /\ s = (m - n) * (m - n) /\ k = (m + n) * (m + n)
      BY <3>2
    <3> QED
      BY <3>1, <3>3
  <2>5. PICK r \in Int, s \in Int, k \in Int : r = (a * a) * (z * z) /\ s = m * n /\ k = (m + n) * (m + n)
    OBVIOUS
  <2>6. r <= s
    BY <1>3, <2>2, <2>3, <2>5
  <2>7. 4 * s <= k
    BY <2>4, <2>5
  <2>8. 4 * r <= k
    BY <2>6, <2>7
  <2> QED
    BY <2>1, <2>5, <2>8
<1>6. 2 * (a * z) <= m + n
  <2>1. 2 * (a * z) \in Int /\ m + n \in Nat
    OBVIOUS
  <2> QED
    BY <1>5, <2>1, SquareLeast
<1>7. (a + z) * (a + z) = (a * a) + (2 * (a * z)) + (z * z)
  OBVIOUS
<1>8. (p + v) * (q + w) = (p * q) + (m + n) + (v * w)
  BY <1>2, <1>4
<1>9. PICK e \in Int, f \in Int, g \in Int, h \in Int : e = a * a /\ f = 2 * (a * z) /\ g = z * z /\ h = p * q
  OBVIOUS
<1>10. e + f + g <= h + (m + n) + g
  BY <1>6, <1>9
<1>11. (a + z) * (a + z) <= (p + v) * (q + w)
  BY <1>3, <1>7, <1>8, <1>9, <1>10
<1> QED
  BY <1>1, <1>11

\* The inequality of Cauchy and Schwarz for the correlation of two vectors.
Numbers(D, u, v) == DOMAIN u = D /\ DOMAIN v = D /\ \A i \in D : u[i] \in Int /\ v[i] \in Int
Cauchy(a, p, q) == a \in Int /\ p \in Nat /\ q \in Nat /\ a * a <= p * q

\* It is kept when a product and two squares are added.
LEMMA CauchyNext ==
    ASSUME NEW a, NEW p, NEW q, Cauchy(a, p, q), NEW x \in Int, NEW y \in Int
    PROVE  Cauchy((x * y) + a, (x * x) + p, (y * y) + q)
<1>1. a \in Int /\ p \in Nat /\ q \in Nat /\ a * a <= p * q
  BY DEF Cauchy
<1>2. (a + (x * y)) * (a + (x * y)) <= (p + (x * x)) * (q + (y * y))
  BY <1>1, CauchyStep
<1>3. x * x \in Nat /\ y * y \in Nat
  <2>1. \A i \in Int : i * i \in Nat
    OBVIOUS
  <2> QED
    BY <2>1
<1>4. PICK z \in Int, v \in Nat, w \in Nat : z = x * y /\ v = x * x /\ w = y * y
  BY <1>3
<1>5. z + a = a + z /\ v + p = p + v /\ w + q = q + w
  BY <1>1
<1>6. (a + z) * (a + z) <= (p + v) * (q + w)
  BY <1>2, <1>4
<1>7. z + a \in Int /\ v + p \in Nat /\ w + q \in Nat
  BY <1>1
<1>8. Cauchy(z + a, v + p, w + q)
  BY <1>5, <1>6, <1>7 DEF Cauchy
<1> QED
  BY <1>4, <1>8

\* So it holds of the sums.
LEMMA DotCauchy ==
    ASSUME NEW D, IsFiniteSet(D), NEW u, NEW v, Numbers(D, u, v)
    PROVE  Cauchy(Dot(u, v), Dot(u, u), Dot(v, v))
<1> DEFINE f == [i \in D |-> u[i] * v[i]]
           h == [i \in D |-> u[i] * u[i]]
           g == [i \in D |-> v[i] * v[i]]
<1>0. DOMAIN u = D /\ DOMAIN v = D /\ \A i \in D : u[i] \in Int /\ v[i] \in Int
  BY DEF Numbers
<1>1. PICK a : /\ a = [s \in SUBSET D |-> IF s = {} THEN 0 ELSE f[Picked(s)] + a[s \ {Picked(s)}]]
               /\ SumFunctionOnSet(f, D) = a[D]
  BY SumDef
<1>2. PICK p : /\ p = [s \in SUBSET D |-> IF s = {} THEN 0 ELSE h[Picked(s)] + p[s \ {Picked(s)}]]
               /\ SumFunctionOnSet(h, D) = p[D]
  BY SumDef
<1>3. PICK q : /\ q = [s \in SUBSET D |-> IF s = {} THEN 0 ELSE g[Picked(s)] + q[s \ {Picked(s)}]]
               /\ SumFunctionOnSet(g, D) = q[D]
  BY SumDef
<1>4. Dot(u, v) = SumFunctionOnSet(f, D) /\ Dot(u, u) = SumFunctionOnSet(h, D) /\ Dot(v, v) = SumFunctionOnSet(g, D)
  BY <1>0 DEF Dot, SumFunction
<1> DEFINE Good(s) == Cauchy(a[s], p[s], q[s])
           G == {s \in SUBSET D : Good(s)}
<1>5. Good({})
  <2>1. a[{}] = 0 /\ p[{}] = 0 /\ q[{}] = 0
    <3>1. {} \in SUBSET D
      OBVIOUS
    <3>2. a[{}] = 0
      BY <1>1, <3>1
    <3>3. p[{}] = 0
      BY <1>2, <3>1
    <3>4. q[{}] = 0
      BY <1>3, <3>1
    <3> QED
      BY <3>2, <3>3, <3>4
  <2> QED
    BY <2>1 DEF Cauchy
<1>6. ASSUME NEW s \in SUBSET D, s # {}
      PROVE  /\ a[s] = f[Picked(s)] + a[s \ {Picked(s)}] /\ p[s] = h[Picked(s)] + p[s \ {Picked(s)}]
             /\ q[s] = g[Picked(s)] + q[s \ {Picked(s)}]
             /\ Picked(s) \in D
  <2>1. a[s] = f[Picked(s)] + a[s \ {Picked(s)}]
    BY <1>1, <1>6
  <2>2. p[s] = h[Picked(s)] + p[s \ {Picked(s)}]
    BY <1>2, <1>6
  <2>3. q[s] = g[Picked(s)] + q[s \ {Picked(s)}]
    BY <1>3, <1>6
  <2>4. Picked(s) \in D
    BY <1>6 DEF Picked
  <2> QED
    BY <2>1, <2>2, <2>3, <2>4
<1>7. ASSUME NEW s \in SUBSET D, s # {}, Good(s \ {Picked(s)}) PROVE Good(s)
  <2>1. PICK t : t = s \ {Picked(s)}
    OBVIOUS
  <2>2. PICK x : x = Picked(s)
    OBVIOUS
  <2>3. Good(t)
    BY <1>7, <2>1
  <2>4. a[s] = f[x] + a[t] /\ p[s] = h[x] + p[t] /\ q[s] = g[x] + q[t] /\ x \in D
    BY <1>6, <1>7, <2>1, <2>2
  <2>5. f[x] = u[x] * v[x] /\ h[x] = u[x] * u[x] /\ g[x] = v[x] * v[x]
    BY <2>4
  <2> HIDE DEF f, h, g
  <2>6. PICK b \in Int : b = u[x]
    BY <1>0, <2>4
  <2>7. PICK c \in Int : c = v[x]
    BY <1>0, <2>4
  <2>8. Cauchy((b * c) + a[t], (b * b) + p[t], (c * c) + q[t])
    BY <2>3, CauchyNext
  <2>9. a[s] = (b * c) + a[t] /\ p[s] = (b * b) + p[t] /\ q[s] = (c * c) + q[t]
    BY <2>4, <2>5, <2>6, <2>7
  <2> QED
    BY <2>8, <2>9
<1> HIDE DEF Good
<1>8. {} \in G /\ \A s \in SUBSET D : s # {} /\ s \ {Picked(s)} \in G => s \in G
  BY <1>5, <1>7
<1>9. Good(D)
  <2>1. \A s \in G : Good(s)
    OBVIOUS
  <2> HIDE DEF G
  <2> QED
    BY <1>8, <2>1, PickedInduction
<1> QED
  BY <1>1, <1>2, <1>3, <1>4, <1>9 DEF Good

\* The order of two vectors does not matter to their correlation.
LEMMA DotEither ==
    ASSUME NEW D, NEW u, NEW v, Numbers(D, u, v)
    PROVE  Dot(u, v) = Dot(v, u)
<1>0. DOMAIN u = D /\ DOMAIN v = D /\ \A i \in D : u[i] \in Int /\ v[i] \in Int
  BY DEF Numbers
<1>1. \A i \in D : u[i] * v[i] = v[i] * u[i]
  <2> SUFFICES ASSUME NEW i \in D PROVE u[i] * v[i] = v[i] * u[i]
    OBVIOUS
  <2>1. \A x, y \in Int : x * y = y * x
    OBVIOUS
  <2>2. u[i] \in Int /\ v[i] \in Int
    BY <1>0
  <2> QED
    BY <2>1, <2>2
<1>2. [i \in D |-> u[i] * v[i]] = [i \in D |-> v[i] * u[i]]
  BY <1>1
<1> QED
  BY <1>0, <1>2 DEF Dot

\* The product of the two quotients of a correlation is at most that of the shifts.
LEMMA QuotientsMost ==
    ASSUME NEW c \in Nat, NEW n1 \in Nat, NEW n2 \in Nat, n1 >= 1, n2 >= 1, c * c <= n1 * n2,
           NEW d1 \in Nat, NEW d2 \in Nat, NEW w1 \in Nat, NEW w2 \in Nat,
           d1 * n1 <= c * w1, d2 * n2 <= c * w2
    PROVE  d1 * d2 <= w1 * w2
<1>1. \A i, j \in Nat : i * j \in Nat
  OBVIOUS
<1>2. (d1 * n1) * (d2 * n2) <= (c * w1) * (d2 * n2)
  <2>1. PICK i \in Nat : i = d1 * n1
    BY <1>1
  <2>2. PICK j \in Nat : j = c * w1
    BY <1>1
  <2>3. PICK k \in Nat : k = d2 * n2
    BY <1>1
  <2> QED
    BY <2>1, <2>2, <2>3, MulBoth
<1>3. (d2 * n2) * (c * w1) <= (c * w2) * (c * w1)
  <2>1. PICK i \in Nat : i = d2 * n2
    BY <1>1
  <2>2. PICK j \in Nat : j = c * w2
    BY <1>1
  <2>3. PICK k \in Nat : k = c * w1
    BY <1>1
  <2> QED
    BY <2>1, <2>2, <2>3, MulBoth
<1>4. (c * c) * (w1 * w2) <= (n1 * n2) * (w1 * w2)
  <2>1. PICK i \in Nat : i = c * c
    BY <1>1
  <2>2. PICK j \in Nat : j = n1 * n2
    BY <1>1
  <2>3. PICK k \in Nat : k = w1 * w2
    BY <1>1
  <2> QED
    BY <2>1, <2>2, <2>3, MulBoth
<1>5. (d1 * n1) * (d2 * n2) = (d1 * d2) * (n1 * n2)
  OBVIOUS
<1>6. (c * w1) * (d2 * n2) = (d2 * n2) * (c * w1)
  OBVIOUS
<1>7. (c * w2) * (c * w1) = (c * c) * (w1 * w2)
  OBVIOUS
<1>8. (n1 * n2) * (w1 * w2) = (w1 * w2) * (n1 * n2)
  OBVIOUS
<1>9. (d1 * d2) * (n1 * n2) <= (w1 * w2) * (n1 * n2)
  <2>1. PICK i \in Int : i = (d1 * d2) * (n1 * n2)
    OBVIOUS
  <2>2. PICK j \in Int : j = (w1 * w2) * (n1 * n2)
    OBVIOUS
  <2>3. PICK k \in Int : k = (d2 * n2) * (c * w1)
    OBVIOUS
  <2>4. PICK l \in Int : l = (c * c) * (w1 * w2)
    OBVIOUS
  <2>5. i <= k
    BY <1>2, <1>5, <1>6, <2>1, <2>3
  <2>6. k <= l
    BY <1>3, <1>7, <2>3, <2>4
  <2>7. l <= j
    BY <1>4, <1>8, <2>2, <2>4
  <2>8. i <= j
    BY <2>5, <2>6, <2>7
  <2> QED
    BY <2>1, <2>2, <2>8
<1>10. n1 * n2 \in Nat /\ n1 * n2 >= 1
  <2>1. 1 * n2 <= n1 * n2
    BY MulBoth
  <2>2. PICK k \in Nat : k = n1 * n2
    BY <1>1
  <2> QED
    BY <2>1, <2>2
<1>11. PICK k \in Nat : k = n1 * n2 /\ k >= 1
  BY <1>10
<1>12. PICK i \in Nat : i = d1 * d2
  BY <1>1
<1>13. PICK j \in Nat : j = w1 * w2
  BY <1>1
<1>14. i * k <= j * k
  BY <1>9, <1>11, <1>12, <1>13
<1>15. i <= j
  BY <1>11, <1>14, MulCancel
<1> QED
  BY <1>12, <1>13, <1>15


\* What a product shifted back is at most.
Scaled(a, b, w, back) ==
    /\ a \in Nat /\ b \in Nat /\ w \in Nat /\ back \in -4 .. 20 /\ a * b <= w
    /\ back >= 0 => w = 4096 * TwoTo(back)
    /\ back < 0 => w * TwoTo(-back) = 4096

\* Under such a bound it is a score.
LEMMA BackAtMost ==
    ASSUME NEW a, NEW b, NEW w, NEW back, Scaled(a, b, w, back)
    PROVE  MultiplyShift(a, b, back) \in 0 .. 4096
<1>a. a \in Nat /\ b \in Nat /\ w \in Nat /\ back \in -4 .. 20
  BY DEF Scaled
<1>0. PICK e \in Nat : e = a * b /\ e <= w
  <2>1. \A i, j \in Nat : i * j \in Nat
    OBVIOUS
  <2>2. a * b \in Nat
    BY <1>a, <2>1
  <2>3. a * b <= w
    BY DEF Scaled
  <2> QED
    BY <2>2, <2>3
<1>1. \A i \in Nat : i <= 20 => TwoTo(i) \in Nat /\ TwoTo(i) >= 1
  BY PowerSum
<1>2. PICK S \in Nat : S = MultiplyShift(a, b, back)
  BY <1>a, MultiplyShiftIs
<1>3. CASE back >= 0
  <2>1. PICK p \in Nat : p = TwoTo(back) /\ p >= 1 /\ w = 4096 * p
    <3>1. back \in Nat /\ back <= 20
      BY <1>a, <1>3
    <3>2. TwoTo(back) \in Nat /\ TwoTo(back) >= 1
      BY <1>1, <3>1
    <3>3. w = 4096 * TwoTo(back)
      BY <1>3 DEF Scaled
    <3> QED
      BY <3>2, <3>3
  <2>2. PICK m \in Nat : m <= e /\ S * p <= m
    <3>1. PICK m \in Nat : m <= a * b /\ (back >= 0 => MultiplyShift(a, b, back) * TwoTo(back) <= m)
      BY <1>a, BackMost
    <3>2. m <= e
      BY <1>0, <3>1
    <3>3. S * p <= m
      BY <1>2, <1>3, <2>1, <3>1
    <3> QED
      BY <3>2, <3>3
  <2>3. PICK x \in Int : x = S * p
    OBVIOUS
  <2>4. x <= 4096 * p
    BY <1>0, <1>a, <2>1, <2>2, <2>3
  <2>5. S <= 4096
    BY <2>1, <2>3, <2>4, MulCancel
  <2>6. S \in 0 .. 4096
    BY <2>5
  <2> QED
    BY <1>2, <2>6
<1>4. CASE back < 0
  <2>1. PICK p \in Nat : p = TwoTo(-back) /\ w * p = 4096
    <3>1. -back \in Nat /\ -back <= 20
      BY <1>a, <1>4
    <3>2. TwoTo(-back) \in Nat
      BY <1>1, <3>1
    <3>3. w * TwoTo(-back) = 4096
      BY <1>4 DEF Scaled
    <3> QED
      BY <3>2, <3>3
  <2>2. PICK m \in Nat : m <= e /\ S = m * p
    <3>1. PICK m \in Nat : m <= a * b /\ (back < 0 => MultiplyShift(a, b, back) = m * TwoTo(-back))
      BY <1>a, BackMost
    <3>2. m <= e
      BY <1>0, <3>1
    <3>3. S = m * p
      BY <1>2, <1>4, <2>1, <3>1
    <3> QED
      BY <3>2, <3>3
  <2>3. m <= w
    BY <1>0, <1>a, <2>2
  <2>4. m * p <= w * p
    BY <1>a, <2>3, MulBoth
  <2>5. S <= 4096
    BY <2>1, <2>2, <2>4
  <2>6. S \in 0 .. 4096
    BY <2>5
  <2> QED
    BY <1>2, <2>6
<1>5. back >= 0 \/ back < 0
  BY <1>a
<1> QED
  BY <1>3, <1>4, <1>5

\* A score is at most 4096.
LEMMA ScoreMost ==
    ASSUME NEW corr, NEW n1, NEW n2, Correlation(corr, n1), Correlation(corr, n2), Cauchy(corr, n1, n2)
    PROVE  Score(corr, n1, n2) \in 0 .. 4096
<1>1. corr \in Nat /\ n1 \in Nat /\ n2 \in Nat /\ n1 >= 1 /\ n2 >= 1
  BY DEF Correlation
<1>2. PICK s1 \in 4 .. 16, s2 \in 4 .. 16 : s1 = Shift(corr, n1) /\ s2 = Shift(corr, n2)
  BY ShiftFits
<1>3. PICK d1 \in Nat : d1 = ShiftDivide(corr, s1, n1) /\ d1 * n1 <= corr * TwoTo(s1)
  <2>1. s1 \in 0 .. 16
    OBVIOUS
  <2>2. ShiftDivide(corr, s1, n1) \in Nat
    BY <1>1, <2>1, ShiftDivideIs
  <2>3. ShiftDivide(corr, s1, n1) * n1 <= corr * TwoTo(s1)
    BY <1>1, DivideMost
  <2> QED
    BY <2>2, <2>3
<1>4. PICK d2 \in Nat : d2 = ShiftDivide(corr, s2, n2) /\ d2 * n2 <= corr * TwoTo(s2)
  <2>1. s2 \in 0 .. 16
    OBVIOUS
  <2>2. ShiftDivide(corr, s2, n2) \in Nat
    BY <1>1, <2>1, ShiftDivideIs
  <2>3. ShiftDivide(corr, s2, n2) * n2 <= corr * TwoTo(s2)
    BY <1>1, DivideMost
  <2> QED
    BY <2>2, <2>3
<1>5. PICK back \in -4 .. 20 : back = s1 + s2 - 12
  OBVIOUS
<1>8. \A i \in Nat : i <= 20 => TwoTo(i) \in Nat /\ TwoTo(i) >= 1
  BY PowerSum
<1>9. PICK w1 \in Nat : w1 = TwoTo(s1)
  BY <1>8
<1>a. PICK w2 \in Nat : w2 = TwoTo(s2)
  BY <1>8
<1>b. d1 * d2 <= w1 * w2
  <2>1. corr * corr <= n1 * n2
    BY DEF Cauchy
  <2> QED
    BY <1>1, <1>3, <1>4, <1>9, <1>a, <2>1, QuotientsMost
<1>c. PICK w \in Nat : w = w1 * w2
  <2>1. \A i, j \in Nat : i * j \in Nat
    OBVIOUS
  <2> QED
    BY <2>1
<1>d. back >= 0 => w = 4096 * TwoTo(back)
  BY <1>5, <1>9, <1>a, <1>c, ShiftsBack
<1>e. back < 0 => w * TwoTo(-back) = 4096
  BY <1>5, <1>9, <1>a, <1>c, ShiftsBack
<1>f. MultiplyShift(d1, d2, back) \in 0 .. 4096
  <2>1. d1 * d2 <= w
    BY <1>b, <1>c
  <2>2. Scaled(d1, d2, w, back)
    BY <1>d, <1>e, <2>1 DEF Scaled
  <2> QED
    BY <2>2, BackAtMost
<1> QED
  <2>1. Score(corr, n1, n2) = Grade(corr, n1, n2, s1, s2)
    BY <1>2 DEF Score
  <2>2. Grade(corr, n1, n2, s1, s2) = MultiplyShift(d1, d2, back)
    <3>1. Grade(corr, n1, n2, s1, s2) = MultiplyShift(d1, d2, s1 + s2 - 12)
      BY <1>3, <1>4 DEF Grade
    <3> QED
      BY <1>5, <3>1
  <2> QED
    BY <1>f, <2>1, <2>2

\* The order of two vectors does not matter to their score.
LEMMA MultiplyEither ==
    ASSUME NEW a \in Nat, NEW b \in Nat, NEW back
    PROVE  MultiplyShift(a, b, back) = MultiplyShift(b, a, back)
<1>1. \A i \in Nat : i \div 256 \in Nat /\ i % 256 \in Nat
  OBVIOUS
<1>2. PICK ah \in Nat, al \in Nat : ah = a \div 256 /\ al = a % 256
  BY <1>1
<1>3. PICK bh \in Nat, bl \in Nat : bh = b \div 256 /\ bl = b % 256
  BY <1>1
<1>4. ah * bl = bl * ah /\ al * bh = bh * al /\ ah * bh = bh * ah /\ al * bl = bl * al
  OBVIOUS
<1>5. (ah * bl) + (al * bh) = (bh * al) + (bl * ah)
  OBVIOUS
<1> QED
  BY <1>2, <1>3, <1>4, <1>5 DEF MultiplyShift

\* So the score is the same for either order.
LEMMA ScoreEither ==
    ASSUME NEW corr, NEW n1, NEW n2, Correlation(corr, n1), Correlation(corr, n2)
    PROVE  Score(corr, n1, n2) = Score(corr, n2, n1)
<1>1. corr \in Nat /\ n1 \in Nat /\ n2 \in Nat /\ n1 >= 1 /\ n2 >= 1
  BY DEF Correlation
<1>2. PICK s1 \in 4 .. 16, s2 \in 4 .. 16 : s1 = Shift(corr, n1) /\ s2 = Shift(corr, n2)
  BY ShiftFits
<1>3. PICK d1 \in Nat, d2 \in Nat : d1 = ShiftDivide(corr, s1, n1) /\ d2 = ShiftDivide(corr, s2, n2)
  <2>1. s1 \in 0 .. 16 /\ s2 \in 0 .. 16
    OBVIOUS
  <2> QED
    BY <1>1, <2>1, ShiftDivideIs
<1>4. s1 + s2 - 12 = s2 + s1 - 12
  OBVIOUS
<1>5. Score(corr, n1, n2) = MultiplyShift(d1, d2, s1 + s2 - 12)
  BY <1>2, <1>3 DEF Score, Grade
<1>6. Score(corr, n2, n1) = MultiplyShift(d2, d1, s2 + s1 - 12)
  BY <1>2, <1>3 DEF Score, Grade
<1> QED
  BY <1>4, <1>5, <1>6, MultiplyEither


\* 65536 has 17 significant bits.
LEMMA MsbSeventeen == GetMsb[65536] = 17
<1>0. GetMsb[1] = 1
  <2>1. 1 \div 2 = 0
    OBVIOUS
  <2> QED
    BY <2>1, MsbStep
<1>1. GetMsb[2] = 2
  <2>1. 2 \div 2 = 1 /\ 2 \in Nat /\ 2 # 0
    OBVIOUS
  <2> QED
    BY <1>0, <2>1, MsbStep
<1>2. GetMsb[4] = 3
  <2>1. 4 \div 2 = 2 /\ 4 \in Nat /\ 4 # 0
    OBVIOUS
  <2> QED
    BY <1>1, <2>1, MsbStep
<1>3. GetMsb[8] = 4
  <2>1. 8 \div 2 = 4 /\ 8 \in Nat /\ 8 # 0
    OBVIOUS
  <2> QED
    BY <1>2, <2>1, MsbStep
<1>4. GetMsb[16] = 5
  <2>1. 16 \div 2 = 8 /\ 16 \in Nat /\ 16 # 0
    OBVIOUS
  <2> QED
    BY <1>3, <2>1, MsbStep
<1>5. GetMsb[32] = 6
  <2>1. 32 \div 2 = 16 /\ 32 \in Nat /\ 32 # 0
    OBVIOUS
  <2> QED
    BY <1>4, <2>1, MsbStep
<1>6. GetMsb[64] = 7
  <2>1. 64 \div 2 = 32 /\ 64 \in Nat /\ 64 # 0
    OBVIOUS
  <2> QED
    BY <1>5, <2>1, MsbStep
<1>7. GetMsb[128] = 8
  <2>1. 128 \div 2 = 64 /\ 128 \in Nat /\ 128 # 0
    OBVIOUS
  <2> QED
    BY <1>6, <2>1, MsbStep
<1>8. GetMsb[256] = 9
  <2>1. 256 \div 2 = 128 /\ 256 \in Nat /\ 256 # 0
    OBVIOUS
  <2> QED
    BY <1>7, <2>1, MsbStep
<1>9. GetMsb[512] = 10
  <2>1. 512 \div 2 = 256 /\ 512 \in Nat /\ 512 # 0
    OBVIOUS
  <2> QED
    BY <1>8, <2>1, MsbStep
<1>10. GetMsb[1024] = 11
  <2>1. 1024 \div 2 = 512 /\ 1024 \in Nat /\ 1024 # 0
    OBVIOUS
  <2> QED
    BY <1>9, <2>1, MsbStep
<1>11. GetMsb[2048] = 12
  <2>1. 2048 \div 2 = 1024 /\ 2048 \in Nat /\ 2048 # 0
    OBVIOUS
  <2> QED
    BY <1>10, <2>1, MsbStep
<1>12. GetMsb[4096] = 13
  <2>1. 4096 \div 2 = 2048 /\ 4096 \in Nat /\ 4096 # 0
    OBVIOUS
  <2> QED
    BY <1>11, <2>1, MsbStep
<1>13. GetMsb[8192] = 14
  <2>1. 8192 \div 2 = 4096 /\ 8192 \in Nat /\ 8192 # 0
    OBVIOUS
  <2> QED
    BY <1>12, <2>1, MsbStep
<1>14. GetMsb[16384] = 15
  <2>1. 16384 \div 2 = 8192 /\ 16384 \in Nat /\ 16384 # 0
    OBVIOUS
  <2> QED
    BY <1>13, <2>1, MsbStep
<1>15. GetMsb[32768] = 16
  <2>1. 32768 \div 2 = 16384 /\ 32768 \in Nat /\ 32768 # 0
    OBVIOUS
  <2> QED
    BY <1>14, <2>1, MsbStep
<1>16. GetMsb[65536] = 17
  <2>1. 65536 \div 2 = 32768 /\ 65536 \in Nat /\ 65536 # 0
    OBVIOUS
  <2> QED
    BY <1>15, <2>1, MsbStep
<1> QED
  BY <1>16

\* The square of a shifted unit, shifted back.
LEMMA UnitSquared ==
    ASSUME NEW s \in 4 .. 15
    PROVE  MultiplyShift(TwoTo(s), TwoTo(s), s + s - 12) = 4096
<1>4. \A back \in Int : back + 4 = 0 => MultiplyShift(16, 16, back) = 4096
  <2>1. ASSUME NEW back \in Int, back < 0, NEW m, m = 2^(-back), m = 16
        PROVE  MultiplyShift(16, 16, back) = 4096
    BY <2>1 DEF MultiplyShift
  <2>2. ASSUME NEW back \in Int, back + 4 = 0 PROVE MultiplyShift(16, 16, back) = 4096
    <3>1. back < 0 /\ -back = 4
      BY <2>2
    <3>2. 2^4 = 16
      OBVIOUS
    <3>3. 2^(-back) = 16
      BY <3>1, <3>2
    <3> QED
      BY <2>1, <3>1, <3>3
  <2> QED
    BY <2>2
<1>5. \A back \in Int : back + 2 = 0 => MultiplyShift(32, 32, back) = 4096
  <2>1. ASSUME NEW back \in Int, back < 0, NEW m, m = 2^(-back), m = 4
        PROVE  MultiplyShift(32, 32, back) = 4096
    BY <2>1 DEF MultiplyShift
  <2>2. ASSUME NEW back \in Int, back + 2 = 0 PROVE MultiplyShift(32, 32, back) = 4096
    <3>1. back < 0 /\ -back = 2
      BY <2>2
    <3>2. 2^2 = 4
      OBVIOUS
    <3>3. 2^(-back) = 4
      BY <3>1, <3>2
    <3> QED
      BY <2>1, <3>1, <3>3
  <2> QED
    BY <2>2
<1>6. MultiplyShift(64, 64, 0) = 4096
  BY DEF MultiplyShift
<1>7. MultiplyShift(128, 128, 2) = 4096
  BY DEF MultiplyShift
<1>8. MultiplyShift(256, 256, 4) = 4096
  BY DEF MultiplyShift
<1>9. MultiplyShift(512, 512, 6) = 4096
  BY DEF MultiplyShift
<1>10. MultiplyShift(1024, 1024, 8) = 4096
  BY DEF MultiplyShift
<1>11. MultiplyShift(2048, 2048, 10) = 4096
  BY DEF MultiplyShift
<1>12. MultiplyShift(4096, 4096, 12) = 4096
  BY DEF MultiplyShift
<1>13. MultiplyShift(8192, 8192, 14) = 4096
  BY DEF MultiplyShift
<1>14. MultiplyShift(16384, 16384, 16) = 4096
  BY DEF MultiplyShift
<1>15. MultiplyShift(32768, 32768, 18) = 4096
  BY DEF MultiplyShift
<1>24. TwoTo(4) = 16 /\ (4 + 4 - 12) + 4 = 0 /\ 4 + 4 - 12 \in Int
  BY DEF TwoTo
<1>25. TwoTo(5) = 32 /\ (5 + 5 - 12) + 2 = 0 /\ 5 + 5 - 12 \in Int
  BY DEF TwoTo
<1>26. TwoTo(6) = 64 /\ 6 + 6 - 12 = 0
  BY DEF TwoTo
<1>27. TwoTo(7) = 128 /\ 7 + 7 - 12 = 2
  BY DEF TwoTo
<1>28. TwoTo(8) = 256 /\ 8 + 8 - 12 = 4
  BY DEF TwoTo
<1>29. TwoTo(9) = 512 /\ 9 + 9 - 12 = 6
  BY DEF TwoTo
<1>30. TwoTo(10) = 1024 /\ 10 + 10 - 12 = 8
  BY DEF TwoTo
<1>31. TwoTo(11) = 2048 /\ 11 + 11 - 12 = 10
  BY DEF TwoTo
<1>32. TwoTo(12) = 4096 /\ 12 + 12 - 12 = 12
  BY DEF TwoTo
<1>33. TwoTo(13) = 8192 /\ 13 + 13 - 12 = 14
  BY DEF TwoTo
<1>34. TwoTo(14) = 16384 /\ 14 + 14 - 12 = 16
  BY DEF TwoTo
<1>35. TwoTo(15) = 32768 /\ 15 + 15 - 12 = 18
  BY DEF TwoTo
<1> QED
  BY <1>4, <1>5, <1>6, <1>7, <1>8, <1>9, <1>10, <1>11, <1>12, <1>13, <1>14, <1>15, <1>24, <1>25, <1>26, <1>27, <1>28, <1>29, <1>30, <1>31, <1>32, <1>33, <1>34, <1>35

\* A number shifted and divided by itself.
LEMMA DivideSelf ==
    ASSUME NEW n \in Nat, n >= 1, NEW s \in 4 .. 16
    PROVE  ShiftDivide(n, s, n) = TwoTo(s)
<1> DEFINE half == s \div 2
           rest == s - half
<1>1. n \div n = 1 /\ n % n = 0 /\ 0 \div n = 0 /\ 0 % n = 0
  OBVIOUS
<1>2. half \in 0 .. 16 /\ rest \in 0 .. 16 /\ s \in 0 .. 16
  OBVIOUS
<1>3. 2^half \in Nat /\ 2^rest \in Nat /\ 2^s \in Nat
  BY <1>2, Powers
<1>4. ShiftDivide(n, s, n) = ((n \div n) * 2^s) + ((((n % n) * 2^half) \div n) * 2^rest) + (((((n % n) * 2^half) % n) * 2^rest) \div n)
  BY DEF ShiftDivide
<1> HIDE DEF half, rest
<1>5. PICK h \in Nat : h = 2^half
  BY <1>3
<1>6. PICK r \in Nat : r = 2^rest
  BY <1>3
<1>7. PICK w \in Nat : w = 2^s
  BY <1>3
<1>8. 0 * h = 0 /\ 0 * r = 0 /\ 1 * w = w
  OBVIOUS
<1>9. ShiftDivide(n, s, n) = (1 * w) + (0 * r) + 0
  BY <1>1, <1>4, <1>5, <1>6, <1>7, <1>8
<1> QED
  BY <1>7, <1>8, <1>9 DEF TwoTo

\* A vector whose norm has at least 17 bits has the whole score with itself.
LEMMA ScoreSelf ==
    ASSUME NEW n, Correlation(n, n), n >= 65536
    PROVE  Score(n, n, n) = 4096
<1>1. n \in Nat /\ n >= 1
  BY DEF Correlation
<1>2. PICK s \in 4 .. 16 : s = Shift(n, n) /\ s <= 32 - GetMsb[n]
  BY ShiftFits
<1>3. GetMsb[n] \in Nat /\ GetMsb[n] >= 17
  <2>1. GetMsb[65536] <= GetMsb[n]
    BY <1>1, MsbGrows
  <2>2. GetMsb[n] \in Nat
    BY <1>1, MsbType
  <2> QED
    BY <2>1, <2>2, MsbSeventeen
<1>4. s \in 4 .. 15
  BY <1>2, <1>3
<1>5. ShiftDivide(n, s, n) = TwoTo(s)
  BY <1>1, DivideSelf
<1>6. Score(n, n, n) = MultiplyShift(TwoTo(s), TwoTo(s), s + s - 12)
  BY <1>2, <1>5 DEF Score, Grade
<1> QED
  BY <1>4, <1>6, UnitSquared

\* The largest number of 16 bits.
LEMMA MsbSixteen == GetMsb[65535] = 16
<1>0. GetMsb[1] = 1
  <2>1. 1 \div 2 = 0
    OBVIOUS
  <2> QED
    BY <2>1, MsbStep
<1>1. GetMsb[3] = 2
  <2>1. 3 \div 2 = 1 /\ 3 \in Nat /\ 3 # 0
    OBVIOUS
  <2> QED
    BY <1>0, <2>1, MsbStep
<1>2. GetMsb[7] = 3
  <2>1. 7 \div 2 = 3 /\ 7 \in Nat /\ 7 # 0
    OBVIOUS
  <2> QED
    BY <1>1, <2>1, MsbStep
<1>3. GetMsb[15] = 4
  <2>1. 15 \div 2 = 7 /\ 15 \in Nat /\ 15 # 0
    OBVIOUS
  <2> QED
    BY <1>2, <2>1, MsbStep
<1>4. GetMsb[31] = 5
  <2>1. 31 \div 2 = 15 /\ 31 \in Nat /\ 31 # 0
    OBVIOUS
  <2> QED
    BY <1>3, <2>1, MsbStep
<1>5. GetMsb[63] = 6
  <2>1. 63 \div 2 = 31 /\ 63 \in Nat /\ 63 # 0
    OBVIOUS
  <2> QED
    BY <1>4, <2>1, MsbStep
<1>6. GetMsb[127] = 7
  <2>1. 127 \div 2 = 63 /\ 127 \in Nat /\ 127 # 0
    OBVIOUS
  <2> QED
    BY <1>5, <2>1, MsbStep
<1>7. GetMsb[255] = 8
  <2>1. 255 \div 2 = 127 /\ 255 \in Nat /\ 255 # 0
    OBVIOUS
  <2> QED
    BY <1>6, <2>1, MsbStep
<1>8. GetMsb[511] = 9
  <2>1. 511 \div 2 = 255 /\ 511 \in Nat /\ 511 # 0
    OBVIOUS
  <2> QED
    BY <1>7, <2>1, MsbStep
<1>9. GetMsb[1023] = 10
  <2>1. 1023 \div 2 = 511 /\ 1023 \in Nat /\ 1023 # 0
    OBVIOUS
  <2> QED
    BY <1>8, <2>1, MsbStep
<1>10. GetMsb[2047] = 11
  <2>1. 2047 \div 2 = 1023 /\ 2047 \in Nat /\ 2047 # 0
    OBVIOUS
  <2> QED
    BY <1>9, <2>1, MsbStep
<1>11. GetMsb[4095] = 12
  <2>1. 4095 \div 2 = 2047 /\ 4095 \in Nat /\ 4095 # 0
    OBVIOUS
  <2> QED
    BY <1>10, <2>1, MsbStep
<1>12. GetMsb[8191] = 13
  <2>1. 8191 \div 2 = 4095 /\ 8191 \in Nat /\ 8191 # 0
    OBVIOUS
  <2> QED
    BY <1>11, <2>1, MsbStep
<1>13. GetMsb[16383] = 14
  <2>1. 16383 \div 2 = 8191 /\ 16383 \in Nat /\ 16383 # 0
    OBVIOUS
  <2> QED
    BY <1>12, <2>1, MsbStep
<1>14. GetMsb[32767] = 15
  <2>1. 32767 \div 2 = 16383 /\ 32767 \in Nat /\ 32767 # 0
    OBVIOUS
  <2> QED
    BY <1>13, <2>1, MsbStep
<1>15. GetMsb[65535] = 16
  <2>1. 65535 \div 2 = 32767 /\ 65535 \in Nat /\ 65535 # 0
    OBVIOUS
  <2> QED
    BY <1>14, <2>1, MsbStep
<1> QED
  BY <1>15

\* A vector whose norm has at most 16 bits has no score with itself: the quotients are 2^16 each and
\* their product does not fit.
LEMMA ScoreSelfLost ==
    ASSUME NEW n \in Nat, n < 65536
    PROVE  Score(n, AtLeast(n, 1), AtLeast(n, 1)) = 0
<1>1. GetMsb[n] \in Nat /\ GetMsb[n] <= 16 /\ GetMsb[0] = 0 /\ GetMsb[1] = 1
  <2>1. n <= 65535 /\ 65535 \in Nat
    OBVIOUS
  <2>2. GetMsb[n] <= GetMsb[65535]
    BY <2>1, MsbGrows
  <2>3. GetMsb[n] \in Nat
    BY MsbType
  <2>4. 1 \div 2 = 0 /\ 0 \in Nat /\ 1 \in Nat /\ 1 # 0
    OBVIOUS
  <2> QED
    BY <2>2, <2>3, <2>4, MsbSixteen, MsbStep
<1>2. Shift(n, AtLeast(n, 1)) = 16
  <2>1. PICK m : m = AtLeast(n, 1)
    OBVIOUS
  <2>2. GetMsb[m] \in Nat /\ GetMsb[n] <= GetMsb[m]
    <3>1. CASE n = 0
      BY <1>1, <2>1, <3>1 DEF AtLeast
    <3>2. CASE n # 0
      BY <1>1, <2>1, <3>2 DEF AtLeast
    <3> QED
      BY <3>1, <3>2
  <2> QED
    BY <1>1, <2>1, <2>2 DEF Shift, AtLeast, AtMost
<1>3. Score(n, AtLeast(n, 1), AtLeast(n, 1)) =
        MultiplyShift(ShiftDivide(n, 16, AtLeast(n, 1)), ShiftDivide(n, 16, AtLeast(n, 1)), 20)
  BY <1>2 DEF Score, Grade
<1>4. CASE n = 0
  <2>1. ShiftDivide(0, 16, 1) = 0
    <3>1. 16 \div 2 = 8 /\ 16 - 8 = 8 /\ 0 % 1 = 0 /\ 0 \div 1 = 0
      OBVIOUS
    <3>2. PICK h \in Nat, w \in Nat : h = 2^8 /\ w = 2^16
      OBVIOUS
    <3>3. 0 * h = 0 /\ 0 * w = 0
      OBVIOUS
    <3> QED
      BY <3>1, <3>2, <3>3 DEF ShiftDivide
  <2>2. MultiplyShift(0, 0, 20) = 0
    BY DEF MultiplyShift
  <2>3. AtLeast(n, 1) = 1
    BY <1>4 DEF AtLeast
  <2> QED
    BY <1>3, <1>4, <2>1, <2>2, <2>3
<1>5. CASE n # 0
  <2>1. AtLeast(n, 1) = n
    BY <1>5 DEF AtLeast
  <2>2. ShiftDivide(n, 16, n) = 65536
    <3>1. ShiftDivide(n, 16, n) = TwoTo(16)
      BY <1>5, DivideSelf
    <3> QED
      BY <3>1 DEF TwoTo
  <2>3. MultiplyShift(65536, 65536, 20) = 0
    BY DEF MultiplyShift
  <2> QED
    BY <1>3, <2>1, <2>2, <2>3
<1> QED
  BY <1>4, <1>5

\* The line a score is on.
LEMMA ConfidenceIs ==
    ASSUME NEW x \in Nat
    PROVE  \E p \in Nat : /\ CalculateConfidence(x) = AtMost((p + 1024) \div 2048, 100)
                          /\ x >= 1228 => p = (5 * (x - 1228)) + (95 * 2048)
                          /\ x < 1228 /\ x >= 800 => p = (167 * (x - 800)) + (60 * 2048)
                          /\ x < 800 => p = 0
<1>1. (4 * 2048) \div 1526 = 5 /\ (35 * 2048) \div 428 = 167
  OBVIOUS
<1>2. CASE x >= 1228
  <2>1. PICK p \in Nat : p = (5 * (x - 1228)) + (95 * 2048)
    BY <1>2
  <2>2. CalculateConfidence(x) = AtMost((p + 1024) \div 2048, 100)
    BY <1>1, <1>2, <2>1 DEF CalculateConfidence, AtLeast
  <2> QED
    BY <1>2, <2>1, <2>2
<1>3. CASE x < 1228 /\ x >= 800
  <2>1. PICK p \in Nat : p = (167 * (x - 800)) + (60 * 2048)
    BY <1>3
  <2>2. CalculateConfidence(x) = AtMost((p + 1024) \div 2048, 100)
    BY <1>1, <1>3, <2>1 DEF CalculateConfidence, AtLeast
  <2> QED
    BY <1>3, <2>1, <2>2
<1>4. CASE x < 800
  <2>1. CalculateConfidence(x) = AtMost((0 + 1024) \div 2048, 100)
    BY <1>4 DEF CalculateConfidence, AtLeast
  <2> QED
    BY <1>4, <2>1
<1> QED
  BY <1>2, <1>3, <1>4

\* The confidence does not fall when the score rises, and is at least 95 above 1228.
LEMMA ConfidenceGrows ==
    ASSUME NEW a \in Nat, NEW b \in Nat
    PROVE  /\ a <= b => CalculateConfidence(a) <= CalculateConfidence(b)
           /\ a > 1228 => CalculateConfidence(a) >= 95
<1>1. PICK p \in Nat : /\ CalculateConfidence(a) = AtMost((p + 1024) \div 2048, 100)
                       /\ a >= 1228 => p = (5 * (a - 1228)) + (95 * 2048)
                       /\ a < 1228 /\ a >= 800 => p = (167 * (a - 800)) + (60 * 2048)
                       /\ a < 800 => p = 0
  BY ConfidenceIs
<1>2. PICK q \in Nat : /\ CalculateConfidence(b) = AtMost((q + 1024) \div 2048, 100)
                       /\ b >= 1228 => q = (5 * (b - 1228)) + (95 * 2048)
                       /\ b < 1228 /\ b >= 800 => q = (167 * (b - 800)) + (60 * 2048)
                       /\ b < 800 => q = 0
  BY ConfidenceIs
<1>3. (a <= b => p <= q) /\ (a > 1228 => p >= 95 * 2048)
  BY <1>1, <1>2
<1>4. /\ p <= q => AtMost((p + 1024) \div 2048, 100) <= AtMost((q + 1024) \div 2048, 100)
      /\ p >= 95 * 2048 => AtMost((p + 1024) \div 2048, 100) >= 95
  BY DEF AtMost
<1> QED
  BY <1>1, <1>2, <1>3, <1>4

Vectors(D, u, v) ==
    IsFiniteSet(D) /\ Cardinality(D) <= 256 /\ u \in [D -> Int] /\ v \in [D -> Int] /\ InRange(u) /\ InRange(v)

LEMMA VectorsSmall ==
    ASSUME NEW D, NEW u, NEW v, Vectors(D, u, v)
    PROVE  DOMAIN u = D /\ DOMAIN v = D /\ \A i \in D : Small(u[i]) /\ Small(v[i])
<1>0. u \in [D -> Int] /\ v \in [D -> Int] /\ InRange(u) /\ InRange(v)
  BY DEF Vectors
<1>1. ASSUME NEW i \in D PROVE Small(u[i]) /\ Small(v[i])
  <2>1. u[i] \in -1023 .. 1023 /\ v[i] \in -1023 .. 1023
    BY <1>0 DEF InRange, MaxFeature
  <2>2. u[i] \in Int /\ v[i] \in Int
    BY <1>0
  <2>3. PICK a \in Int, b \in Int : a = u[i] /\ b = v[i]
    BY <2>2
  <2>4. a \in -1023 .. 1023 /\ b \in -1023 .. 1023
    BY <2>1, <2>3
  <2>5. Small(a) /\ Small(b)
    BY <2>4 DEF Small
  <2> QED
    BY <2>3, <2>5
<1> QED
  BY <1>0, <1>1

\* The correlation and the norms of two vectors of up to 256 features in range.
LEMMA MatchParts ==
    ASSUME NEW D, NEW u, NEW v, Vectors(D, u, v)
    PROVE  /\ Correlation(AtLeast(Dot(u, v), 0), AtLeast(Dot(u, u), 1))
           /\ Correlation(AtLeast(Dot(u, v), 0), AtLeast(Dot(v, v), 1))
           /\ Cauchy(AtLeast(Dot(u, v), 0), AtLeast(Dot(u, u), 1), AtLeast(Dot(v, v), 1))
           /\ Dot(u, v) = Dot(v, u)
<1>0. IsFiniteSet(D) /\ Cardinality(D) <= 256 /\ u \in [D -> Int] /\ v \in [D -> Int] /\ InRange(u) /\ InRange(v)
  BY DEF Vectors
<1>1. DOMAIN u = D /\ DOMAIN v = D /\ \A i \in D : Small(u[i]) /\ Small(v[i])
  BY VectorsSmall
<1>2. /\ Dot(u, v) \in Int /\ Dot(u, u) \in Nat /\ Dot(v, v) \in Nat
      /\ Dot(u, v) <= 1023 * Dot(u, u) /\ Dot(u, v) <= 1023 * Dot(v, v)
      /\ Dot(u, v) <= (1023 * 1023) * Cardinality(D)
  BY <1>0, <1>1, DotBounds
<1>3. Cardinality(D) \in Nat /\ Cardinality(D) <= 256
  BY <1>0, FS_CardinalityType
<1>4. PICK c \in Int, n1 \in Nat, n2 \in Nat : c = Dot(u, v) /\ n1 = Dot(u, u) /\ n2 = Dot(v, v)
  BY <1>2
<1>5. c <= 1023 * n1 /\ c <= 1023 * n2 /\ c <= (1023 * 1023) * 256
  BY <1>2, <1>3, <1>4
<1>6. Numbers(D, u, v)
  BY <1>0, <1>1 DEF Numbers
<1>7. Cauchy(c, n1, n2)
  BY <1>0, <1>4, <1>6, DotCauchy
<1>8. Correlation(AtLeast(c, 0), AtLeast(n1, 1)) /\ Correlation(AtLeast(c, 0), AtLeast(n2, 1))
  BY <1>5 DEF Correlation, AtLeast
<1>9. Cauchy(AtLeast(c, 0), AtLeast(n1, 1), AtLeast(n2, 1))
  <2>1. c * c <= n1 * n2
    BY <1>7 DEF Cauchy
  <2>2. PICK p \in Nat : p = AtLeast(n1, 1) /\ n1 <= p
    BY DEF AtLeast
  <2>3. PICK q \in Nat : q = AtLeast(n2, 1) /\ n2 <= q
    BY DEF AtLeast
  <2>4. n1 * n2 <= p * q
    <3>1. n1 * n2 <= p * n2
      BY <2>2, MulBoth
    <3>2. n2 * p <= q * p
      BY <2>3, MulBoth
    <3>3. p * n2 = n2 * p /\ q * p = p * q
      OBVIOUS
    <3>4. PICK i \in Int : i = n1 * n2
      OBVIOUS
    <3>5. PICK j \in Int : j = p * n2
      OBVIOUS
    <3>6. PICK k \in Int : k = p * q
      OBVIOUS
    <3>7. i <= j
      BY <3>1, <3>4, <3>5
    <3>8. j <= k
      BY <3>2, <3>3, <3>5, <3>6
    <3>9. i <= k
      BY <3>7, <3>8
    <3> QED
      BY <3>4, <3>6, <3>9
  <2>5. CASE c > 0
    <3>1. AtLeast(c, 0) = c
      BY <2>5 DEF AtLeast
    <3>2. c * c <= p * q
      <4>1. PICK i \in Int : i = c * c
        OBVIOUS
      <4>2. PICK j \in Int : j = n1 * n2
        OBVIOUS
      <4>3. PICK k \in Int : k = p * q
        OBVIOUS
      <4>4. i <= j
        BY <2>1, <4>1, <4>2
      <4>5. j <= k
        BY <2>4, <4>2, <4>3
      <4>6. i <= k
        BY <4>4, <4>5
      <4> QED
        BY <4>1, <4>3, <4>6
    <3>3. Cauchy(c, p, q)
      BY <3>2 DEF Cauchy
    <3> QED
      BY <2>2, <2>3, <3>1, <3>3
  <2>6. CASE ~(c > 0)
    <3>1. AtLeast(c, 0) = 0
      BY <2>6 DEF AtLeast
    <3>2. 0 * 0 <= p * q
      <4>1. \A i, j \in Nat : i * j \in Nat
        OBVIOUS
      <4>2. p * q \in Nat
        BY <4>1
      <4> QED
        BY <4>2
    <3>3. Cauchy(0, p, q)
      BY <3>2 DEF Cauchy
    <3> QED
      BY <2>2, <2>3, <3>1, <3>3
  <2> QED
    BY <2>5, <2>6
<1>10. Dot(u, v) = Dot(v, u)
  BY <1>6, DotEither
<1> QED
  BY <1>4, <1>8, <1>9, <1>10

Scores == 0 .. MaxScore

\* The score of two vectors is a score, and the same for either order.
LEMMA MatchSound ==
    ASSUME NEW D, NEW u, NEW v, Vectors(D, u, v)
    PROVE  MatchTwoVectors(u, v) \in Scores /\ MatchTwoVectors(u, v) = MatchTwoVectors(v, u)
<1>1. PICK c : c = AtLeast(Dot(u, v), 0)
  OBVIOUS
<1>2. PICK n1 : n1 = AtLeast(Dot(u, u), 1)
  OBVIOUS
<1>3. PICK n2 : n2 = AtLeast(Dot(v, v), 1)
  OBVIOUS
<1>4. Correlation(c, n1) /\ Correlation(c, n2) /\ Cauchy(c, n1, n2) /\ c = AtLeast(Dot(v, u), 0)
  BY <1>1, <1>2, <1>3, MatchParts
<1>5. Score(c, n1, n2) \in Scores /\ Score(c, n1, n2) = Score(c, n2, n1)
  <2>1. Score(c, n1, n2) \in 0 .. 4096
    BY <1>4, ScoreMost
  <2>2. Score(c, n1, n2) \in Scores
    BY <2>1 DEF Scores, MaxScore
  <2>3. Score(c, n1, n2) = Score(c, n2, n1)
    BY <1>4, ScoreEither
  <2> QED
    BY <2>2, <2>3
<1>6. MatchTwoVectors(u, v) = Score(c, n1, n2)
  BY <1>1, <1>2, <1>3 DEF MatchTwoVectors
<1>7. MatchTwoVectors(v, u) = Score(c, n2, n1)
  BY <1>2, <1>3, <1>4 DEF MatchTwoVectors
<1> QED
  BY <1>5, <1>6, <1>7

\* A vector whose norm has at least 17 bits has the whole score with itself.
LEMMA MatchSelf ==
    ASSUME NEW D, NEW v, Vectors(D, v, v), Dot(v, v) >= 65536
    PROVE  MatchTwoVectors(v, v) = MaxScore
<1>0. Dot(v, v) \in Int
  <2>1. Numbers(D, v, v) /\ IsFiniteSet(D)
    BY DEF Vectors, Numbers
  <2> QED
    BY <2>1, DotCauchy DEF Cauchy
<1>1. PICK n \in Int : n = Dot(v, v) /\ n >= 65536
  BY <1>0
<1>2. AtLeast(n, 0) = n /\ AtLeast(n, 1) = n
  BY <1>1 DEF AtLeast
<1>3. Correlation(n, n)
  BY <1>1, <1>2, MatchParts
<1>4. MatchTwoVectors(v, v) = Score(n, n, n)
  BY <1>1, <1>2 DEF MatchTwoVectors
<1> QED
  BY <1>1, <1>3, <1>4, ScoreSelf DEF MaxScore

\* A vector of a smaller norm has none.
LEMMA MatchSelfLost ==
    ASSUME NEW D, NEW v, Vectors(D, v, v), Dot(v, v) < 65536
    PROVE  MatchTwoVectors(v, v) = 0
<1>1. Dot(v, v) \in Nat
  BY DotBounds, VectorsSmall DEF Vectors
<1>2. PICK n \in Nat : n = Dot(v, v) /\ n < 65536
  BY <1>1
<1>3. AtLeast(n, 0) = n
  BY DEF AtLeast
<1>4. MatchTwoVectors(v, v) = Score(n, AtLeast(n, 1), AtLeast(n, 1))
  BY <1>2, <1>3 DEF MatchTwoVectors
<1> QED
  BY <1>2, <1>4, ScoreSelfLost

\* A vector of the features.
LEMMA FeatureVectors ==
    ASSUME NEW u \in Vector, NEW v \in Vector, InRange(u), InRange(v)
    PROVE  Vectors(Features, u, v)
BY FeaturesAssumption DEF Vectors, Vector

\* For any 256 features in range, the score is between 0 and 4096, the same in either order, and 4096
\* for a vector with itself when its norm has at least 17 bits and 0 when it has not; and the confidence grows.
THEOREM ScoresAreSoundHolds == Spec => []ScoresAreSound
<1>1. ASSUME HostInv PROVE ScoresAreSound
  <2> SUFFICES ASSUME pc = "search", NEW u \in Enrolled, NEW vec, NEW score, NEW self,
                      vec = GalleryVector(probe.masked, db[u]),
                      score = MatchTwoVectors(probe.features, vec), self = MatchTwoVectors(vec, vec),
                      InRange(probe.features), InRange(vec)
               PROVE  /\ score \in 0 .. MaxScore
                      /\ score = MatchTwoVectors(vec, probe.features)
                      /\ self = (IF Dot(vec, vec) >= 65536 THEN MaxScore ELSE 0)
                      /\ score <= self => CalculateConfidence(score) <= CalculateConfidence(self)
                      /\ score > 1228 => CalculateConfidence(score) >= 95
    BY DEF ScoresAreSound
  <2>1. probe \in Sample /\ db[u] \in EntryType /\ EntryInRange(db[u])
    BY <1>1 DEF HostInv, SearchKnown, EntriesKnown, VectorsInRange
  <2>2. probe.features \in Vector
    BY <2>1 DEF Sample
  <2>3. vec \in Vector
    <3>1. db[u].withoutMask \in Vector
      BY <2>1 DEF EntryType
    <3>2. db[u].maskValid => db[u].withMask \in Vector
      BY <2>1 DEF EntryInRange
    <3> QED
      BY <3>1, <3>2 DEF GalleryVector
  <2>4. Vectors(Features, probe.features, vec)
    BY <2>2, <2>3, FeatureVectors
  <2>5. Vectors(Features, vec, vec)
    BY <2>3, FeatureVectors
  <2>6. score \in Scores /\ score = MatchTwoVectors(vec, probe.features)
    <3>1. /\ MatchTwoVectors(probe.features, vec) \in Scores
          /\ MatchTwoVectors(probe.features, vec) = MatchTwoVectors(vec, probe.features)
      BY <2>4, MatchSound
    <3> QED
      BY <3>1
  <2>7. self \in Scores
    <3>1. MatchTwoVectors(vec, vec) \in Scores
      BY <2>5, MatchSound
    <3> QED
      BY <3>1
  <2>8. self = (IF Dot(vec, vec) >= 65536 THEN MaxScore ELSE 0)
    <3>1. Dot(vec, vec) \in Int
      <4>1. Numbers(Features, vec, vec) /\ IsFiniteSet(Features)
        BY <2>5 DEF Vectors, Numbers
      <4> QED
        BY <4>1, DotCauchy DEF Cauchy
    <3>2. Dot(vec, vec) >= 65536 \/ Dot(vec, vec) < 65536
      BY <3>1
    <3>3. Dot(vec, vec) >= 65536 => MatchTwoVectors(vec, vec) = MaxScore
      BY <2>5, MatchSelf
    <3>4. ~(Dot(vec, vec) >= 65536) => MatchTwoVectors(vec, vec) = 0
      BY <2>5, <3>2, MatchSelfLost
    <3> QED
      BY <3>3, <3>4
  <2>9. score \in Nat /\ self \in Nat
    <3>1. Scores \subseteq Nat
      BY DEF Scores, MaxScore
    <3> QED
      BY <2>6, <2>7, <3>1
  <2>10. /\ score <= self => CalculateConfidence(score) <= CalculateConfidence(self)
         /\ score > 1228 => CalculateConfidence(score) >= 95
    BY <2>9, ConfidenceGrows
  <2> QED
    BY <2>6, <2>8, <2>10 DEF Scores
<1> QED
  BY <1>1, HostInvariant, PTL

\* A score of vectors in range is a number.
LEMMA ScoresAreNumbers ==
    \A u, v \in Vector : InRange(u) /\ InRange(v) => MatchTwoVectors(u, v) \in Int
<1> SUFFICES ASSUME NEW u \in Vector, NEW v \in Vector, InRange(u), InRange(v)
             PROVE  MatchTwoVectors(u, v) \in Int
  OBVIOUS
<1>1. MatchTwoVectors(u, v) \in Scores
  <2>1. Vectors(Features, u, v)
    BY FeatureVectors
  <2> QED
    BY <2>1, MatchSound
<1>2. Scores \subseteq Int
  BY DEF Scores, MaxScore
<1> QED
  BY <1>1, <1>2

-----------------------------------------------------------------------------
(* The search of an authentication.                                         *)

\* An entry is in range, or nothing was ever blended into it.
Usable(entry) ==
    \/ InRange(entry.enrolled)
    \/ entry.withoutMask = entry.enrolled /\ ~entry.maskValid

Near(entry) == NearEnrolled(entry) /\ Usable(entry)

\* The entries, and the one that may replace one of them.
NearKnown ==
    /\ \A u \in Enrolled : Near(db[u])
    /\ pc # "menu" /\ winner # NoWinner /\ winner.shouldUpdate => Near(winner.entry)

\* An adaptive vector is limited only after a match in range, and with a masked probe it is the
\* other vector.
LimitNear ==
    pc = "limit" =>
        /\ Match(NextUser).blend /\ turns \in 0..Thresholds.limit
        /\ InRange(updated.enrolled) /\ InRange(updated.withoutMask)
        /\ probe.masked => updated.withoutMask = db[NextUser].withoutMask

\* The users are looked at in order, and the winner is the best of those looked at.
Looked == Enrolled \ todo

BestKnown ==
    pc # "menu" =>
        /\ \A u \in Looked, w \in todo : u < w
        /\ IF winner = NoWinner THEN \A u \in Looked : ~Match(u).isSame
           ELSE /\ winner.id \in Looked /\ Match(winner.id).isSame
                /\ winner.score = Match(winner.id).score
                /\ winner.shouldUpdate \in BOOLEAN /\ winner.entry \in EntryType
                /\ winner = [id |-> winner.id, score |-> winner.score,
                             shouldUpdate |-> winner.shouldUpdate, entry |-> winner.entry]
                /\ \A u \in Looked : Match(u).isSame =>
                      \/ Match(u).score < winner.score
                      \/ Match(u).score = winner.score /\ winner.id <= u

RestKnown ==
    /\ DOMAIN db = Enrolled /\ db = [u \in Enrolled |-> db[u]]
    /\ pc \in {"menu", "search", "limit"}
    /\ probe \in Samples \cup {NoEntry} /\ (pc = "menu") = (probe = NoEntry)
    /\ pc = "menu" => todo = {} /\ winner = NoWinner
    /\ pc # "limit" => match = NoMatch /\ updated = NoEntry /\ turns = 0
    /\ last \in Samples \cup {NoEntry}
    /\ commands \in 0..MaxCommands /\ repeats \in 0..MaxRepeats

SearchInv == HostInv /\ NearKnown /\ LimitNear /\ BestKnown /\ RestKnown

\* A match that counts, or that is blended, is one of comparable vectors with a positive score.
LEMMA MatchIs ==
    ASSUME NEW e \in EntryType, NEW p \in Sample, EntryInRange(e), Usable(e)
    PROVE  /\ MatchFaceprints(p, e) \in MatchType
           /\ MatchFaceprints(p, e).isSame => MatchFaceprints(p, e).score > 0
           /\ MatchFaceprints(p, e).blend =>
                 /\ InRange(e.withoutMask) /\ InRange(e.enrolled) /\ InRange(p.features)
                 /\ HandleThresholdsConfiguration(p.masked, e).limit \in {100, 400}
<1> DEFINE score == MatchTwoVectors(p.features, GalleryVector(p.masked, e))
           t == HandleThresholdsConfiguration(p.masked, e)
           refused == e.type # "W10" /\ p.type = "W10" /\ p.masked
           replaced == e.type # "W10" /\ p.type = "W10" /\ ~p.masked
           result == [isSame |-> score > t.strong /\ ~refused, score |-> score,
                      shouldUpdate |-> score > t.strong /\ (score >= t.update \/ replaced),
                      blend |-> score > t.strong /\ score >= t.update /\ e.type = "W10"]
<1>1. /\ e.withoutMask \in Vector /\ p.features \in Vector /\ p.masked \in BOOLEAN
      /\ e.maskValid \in BOOLEAN /\ (e.maskValid => e.withMask \in Vector)
  BY DEF EntryType, Sample, EntryInRange
<1>2. t.strong \in Nat /\ t.update \in Nat /\ t.limit \in {100, 400}
  BY <1>1 DEF HandleThresholdsConfiguration
<1>3. CASE ~Comparable(p, e)
  <2>1. MatchFaceprints(p, e) = NoMatch
    BY <1>3 DEF MatchFaceprints
  <2> QED
    BY <2>1 DEF NoMatch, MatchType
<1>4. CASE Comparable(p, e)
  <2>1. /\ InRange(p.features) /\ InRange(e.withoutMask) /\ InRange(e.enrolled)
        /\ e.maskValid => InRange(e.withMask)
    BY <1>4 DEF Comparable, Usable, EntryInRange
  <2>2. GalleryVector(p.masked, e) \in Vector /\ InRange(GalleryVector(p.masked, e))
    BY <1>1, <2>1 DEF GalleryVector
  <2>3. score \in Int
    BY <1>1, <2>1, <2>2, ScoresAreNumbers
  <2>4. FaceMatch(p, e).score = score
    BY DEF FaceMatch, GetScores, NoMatch
  <2>5. MatchFaceprints(p, e) = result
    BY <1>4, <2>4 DEF MatchFaceprints
  <2> HIDE DEF score, t, refused, replaced
  <2>6. result \in MatchType
    BY <2>3 DEF MatchType
  <2>7. score > t.strong => score > 0
    BY <1>2, <2>3
  <2>8. result.isSame => score > t.strong
    OBVIOUS
  <2> QED
    BY <1>2, <2>1, <2>5, <2>6, <2>7, <2>8 DEF t
<1> QED
  BY <1>3, <1>4

\* Being blended makes an entry no less usable, and changes one of its two vectors.
LEMMA BlendedNear ==
    ASSUME NEW e \in EntryType, NEW p \in Sample, EntryInRange(e),
           InRange(e.enrolled), InRange(e.withoutMask), InRange(p.features)
    PROVE  /\ InRange(BlendedEntry(p, e).withoutMask) /\ InRange(BlendedEntry(p, e).enrolled)
           /\ p.masked => BlendedEntry(p, e).withoutMask = e.withoutMask
<1>1. e.withoutMask \in Vector /\ p.features \in Vector /\ p.masked \in BOOLEAN
  BY DEF EntryType, Sample
<1>2. InRange(BlendAverageVector(e.withoutMask, p.features))
  BY <1>1, BlendVector
<1>3. /\ BlendedEntry(p, e).enrolled = e.enrolled
      /\ BlendedEntry(p, e).withoutMask =
            IF p.masked THEN e.withoutMask ELSE BlendAverageVector(e.withoutMask, p.features)
  BY <1>1 DEF BlendedEntry, EntryType
<1> QED
  BY <1>2, <1>3

LEMMA PulledNear ==
    ASSUME NEW e \in EntryType, NEW masked \in BOOLEAN, InRange(e.enrolled), InRange(e.withoutMask)
    PROVE  /\ InRange(PulledBack(masked, e).withoutMask) /\ InRange(PulledBack(masked, e).enrolled)
           /\ masked => PulledBack(masked, e).withoutMask = e.withoutMask
<1>1. e.withoutMask \in Vector /\ e.enrolled \in Vector
  BY DEF EntryType
<1>2. InRange(BlendAverageVector(e.withoutMask, e.enrolled))
  BY <1>1, BlendVector
<1>3. /\ PulledBack(masked, e).enrolled = e.enrolled
      /\ PulledBack(masked, e).withoutMask =
            IF masked THEN e.withoutMask ELSE BlendAverageVector(e.withoutMask, e.enrolled)
  BY DEF PulledBack, AdaptiveVector, AnchorVector, EntryType
<1> QED
  BY <1>2, <1>3

-----------------------------------------------------------------------------
(* The steps of the search.                                                 *)

\* What is known of an entry of the database while it is searched.
LEMMA EntryFacts ==
    ASSUME SearchInv, NEW u \in Enrolled
    PROVE  /\ u \in Nat /\ db[u] \in EntryType /\ EntryInRange(db[u]) /\ Near(db[u])
           /\ probe \in Sample => /\ Match(u) \in MatchType
                                  /\ Match(u).isSame => Match(u).score > 0
<1>1. u \in Nat /\ db[u] \in EntryType /\ EntryInRange(db[u]) /\ Near(db[u])
  BY UsersAssumption DEF SearchInv, HostInv, EntriesKnown, VectorsInRange, NearKnown
<1> QED
  BY <1>1, MatchIs DEF Near, Match

LEMMA KeepBest ==
    ASSUME SearchInv, pc # "menu", todo # {}, NEW flag \in BOOLEAN,
           NEW entry \in EntryType, Keep(Match(NextUser), flag, entry)
    PROVE  BestKnown'
<1> DEFINE result == Match(NextUser)
<1>1. /\ NextUser \in todo /\ NextUser \in Enrolled /\ \A w \in todo : NextUser <= w
      /\ todo \subseteq Enrolled /\ probe \in Sample
  BY NextUserKnown DEF SearchInv, HostInv, SearchKnown
<1>2. \A u \in Enrolled : /\ u \in Nat /\ Match(u).score \in Int /\ Match(u).isSame \in BOOLEAN
                          /\ Match(u).isSame => Match(u).score > 0
  BY <1>1, EntryFacts DEF MatchType
<1>3. /\ pc' = "search" /\ todo' = todo \ {NextUser} /\ Enrolled' = Enrolled
      /\ \A u : Match(u)' = Match(u)
  BY DEF Keep, Match, Enrolled
<1>4. Looked' = Looked \cup {NextUser}
  BY <1>1, <1>3 DEF Looked
<1>5. /\ \A u \in Looked, w \in todo : u < w
      /\ Looked \subseteq Enrolled
  BY DEF SearchInv, BestKnown, Looked
<1>6. \A u \in Looked', w \in todo' : u < w
  <2> SUFFICES ASSUME NEW u \in Looked', NEW w \in todo' PROVE u < w
    OBVIOUS
  <2>1. w \in todo /\ w # NextUser /\ w \in Nat /\ NextUser \in Nat /\ NextUser <= w
    BY <1>1, <1>2, <1>3
  <2> QED
    BY <1>4, <1>5, <2>1
<1>7. PICK me : me = NextUser
  OBVIOUS
<1>8. PICK res : res = Match(NextUser)
  OBVIOUS
<1>9. me \in Enrolled /\ res = Match(me) /\ Looked' = Looked \cup {me} /\ \A u \in Looked : u < me
  BY <1>1, <1>4, <1>5, <1>7, <1>8
<1>10. winner' = IF res.isSame /\ res.score > winner.score
                 THEN [id |-> me, score |-> res.score, shouldUpdate |-> flag, entry |-> entry]
                 ELSE winner
  BY <1>7, <1>8 DEF Keep, Better
<1>11. CASE res.isSame /\ res.score > winner.score
  <2>1. winner' = [id |-> me, score |-> res.score, shouldUpdate |-> flag, entry |-> entry]
    BY <1>10, <1>11
  <2>2. ASSUME NEW u \in Looked, Match(u).isSame PROVE Match(u).score < res.score
    <3>1. winner # NoWinner
      BY <2>2 DEF SearchInv, BestKnown
    <3>2. winner.score = Match(winner.id).score /\ winner.id \in Looked
      BY <3>1 DEF SearchInv, BestKnown
    <3>3. Match(u).score < winner.score \/ Match(u).score = winner.score
      BY <2>2, <3>1 DEF SearchInv, BestKnown
    <3>4. winner.score \in Int /\ res.score \in Int /\ Match(u).score \in Int
      BY <1>2, <1>5, <1>9, <3>2
    <3> QED
      BY <1>11, <3>3, <3>4
  <2>3. winner' # NoWinner
    <3>1. winner'.id = me /\ me \in Nat /\ NoWinner.id = -1
      BY <1>2, <1>9, <2>1 DEF NoWinner, NoUser
    <3> QED
      BY <3>1
  <2>4. /\ winner'.id = me /\ winner'.score = res.score /\ winner'.shouldUpdate = flag
        /\ winner'.entry = entry
    BY <2>1
  <2>5. me <= me
    BY <1>2, <1>9
  <2> QED
    BY <1>3, <1>6, <1>9, <1>11, <2>1, <2>2, <2>3, <2>4, <2>5 DEF BestKnown
<1>12. CASE ~(res.isSame /\ res.score > winner.score)
  <2>1. winner' = winner
    BY <1>10, <1>12
  <2>2. CASE winner = NoWinner
    <3>1. ~res.isSame
      <4>1. winner.score = -1
        BY <2>2 DEF NoWinner
      <4>2. res.isSame => res.score > -1
        BY <1>2, <1>9
      <4> QED
        BY <1>12, <4>1, <4>2
    <3>2. \A u \in Looked : ~Match(u).isSame
      BY <2>2 DEF SearchInv, BestKnown
    <3> QED
      BY <1>3, <1>6, <1>9, <2>1, <2>2, <3>1, <3>2 DEF BestKnown
  <2>3. CASE winner # NoWinner
    <3>1. /\ winner.id \in Looked /\ Match(winner.id).isSame
          /\ winner.score = Match(winner.id).score
          /\ winner.shouldUpdate \in BOOLEAN /\ winner.entry \in EntryType
          /\ winner = [id |-> winner.id, score |-> winner.score,
                       shouldUpdate |-> winner.shouldUpdate, entry |-> winner.entry]
          /\ \A u \in Looked : Match(u).isSame =>
                \/ Match(u).score < winner.score
                \/ Match(u).score = winner.score /\ winner.id <= u
      BY <2>3 DEF SearchInv, BestKnown
    <3>2. res.isSame => res.score < winner.score \/ (res.score = winner.score /\ winner.id <= me)
      <4>1. winner.score \in Int /\ res.score \in Int /\ winner.id \in Nat /\ me \in Nat /\ winner.id < me
        BY <1>2, <1>5, <1>9, <3>1
      <4> QED
        BY <1>12, <4>1
    <3> QED
      BY <1>3, <1>6, <1>9, <2>1, <2>3, <3>1, <3>2 DEF BestKnown
  <2> QED
    BY <2>2, <2>3
<1> QED
  BY <1>11, <1>12

\* A result is kept: what may replace the entry is near it when it is to be used.
LEMMA KeepMore ==
    ASSUME SearchInv, pc # "menu", todo # {}, NEW flag \in BOOLEAN,
           NEW entry \in EntryType, flag => Near(entry), Keep(Match(NextUser), flag, entry)
    PROVE  NearKnown' /\ LimitNear' /\ BestKnown' /\ RestKnown'
<1>1. /\ pc' = "search" /\ match' = NoMatch /\ updated' = NoEntry /\ turns' = 0
      /\ UNCHANGED <<db, probe, last, commands, repeats>>
      /\ \/ winner' = winner
         \/ winner' = [id |-> NextUser, score |-> Match(NextUser).score,
                       shouldUpdate |-> flag, entry |-> entry]
  BY DEF Keep
<1>2. NearKnown'
  BY <1>1 DEF SearchInv, NearKnown, Enrolled
<1>3. LimitNear' /\ RestKnown'
  BY <1>1 DEF SearchInv, LimitNear, RestKnown, Enrolled
<1> QED
  BY <1>2, <1>3, KeepBest

LEMMA ReplacedNear ==
    ASSUME NEW e \in EntryType, Near(e), NEW p \in Sample PROVE Near(ReplacedEntry(p, e))
<1>1. CASE e.type # "W10" /\ p.type = "W10" /\ ~p.masked
  <2>1. ReplacedEntry(p, e) = [e EXCEPT !.type = p.type, !.version = p.version,
                                        !.withoutMask = p.features, !.enrolled = p.features,
                                        !.maskValid = FALSE]
    BY <1>1 DEF ReplacedEntry
  <2> QED
    BY <2>1 DEF EntryType, Sample, Near, NearEnrolled, Usable
<1>2. CASE ~(e.type # "W10" /\ p.type = "W10" /\ ~p.masked)
  BY <1>2 DEF ReplacedEntry
<1> QED
  BY <1>1, <1>2

LEMMA SearchUserMore ==
    ASSUME SearchInv, SearchUser
    PROVE  NearKnown' /\ LimitNear' /\ BestKnown' /\ RestKnown'
<1>1. /\ pc = "search" /\ todo # {}
      /\ MatchUser(Match(NextUser)) \/ BlendUser(Match(NextUser))
  BY DEF SearchUser, Match
<1>2. NextUser \in Enrolled /\ probe \in Sample
  BY <1>1, NextUserKnown DEF SearchInv, HostInv, SearchKnown
<1>3. db[NextUser] \in EntryType /\ EntryInRange(db[NextUser]) /\ Near(db[NextUser])
  BY <1>2, EntryFacts
<1>4. /\ Match(NextUser) \in MatchType
      /\ Match(NextUser).blend =>
            /\ InRange(db[NextUser].withoutMask) /\ InRange(db[NextUser].enrolled)
            /\ InRange(probe.features) /\ Thresholds.limit \in {100, 400}
  BY <1>2, <1>3, MatchIs DEF Near, Match, Thresholds
<1>5. CASE MatchUser(Match(NextUser))
  <2> DEFINE entry == ReplacedEntry(probe, db[NextUser])
  <2>1. Keep(Match(NextUser), Match(NextUser).shouldUpdate, entry)
    BY <1>5 DEF MatchUser
  <2>2. entry \in EntryType
    BY <1>1, <1>2, ReplacedMay DEF SearchInv, MayReplace
  <2>3. Near(entry)
    BY <1>2, <1>3, ReplacedNear
  <2>4. Match(NextUser).shouldUpdate \in BOOLEAN
    BY <1>4 DEF MatchType
  <2> HIDE DEF entry
  <2> QED
    BY <1>1, <2>1, <2>2, <2>3, <2>4, KeepMore
<1>6. CASE BlendUser(Match(NextUser))
  <2>1. /\ Match(NextUser).blend /\ pc' = "limit" /\ turns' = 0
        /\ updated' = BlendedEntry(probe, db[NextUser])
        /\ UNCHANGED <<db, probe, todo, winner, last, commands, repeats>>
    BY <1>6 DEF BlendUser
  <2>2. /\ InRange(updated'.withoutMask) /\ InRange(updated'.enrolled)
        /\ probe.masked => updated'.withoutMask = db[NextUser].withoutMask
    BY <1>2, <1>3, <1>4, <2>1, BlendedNear
  <2>3. /\ NextUser' = NextUser /\ Enrolled' = Enrolled /\ Looked' = Looked
        /\ Thresholds' = Thresholds /\ \A u : Match(u)' = Match(u)
    BY <2>1 DEF NextUser, Enrolled, Looked, Thresholds, Match
  <2>4. 0 \in 0..Thresholds.limit
    BY <1>4, <2>1
  <2>5. LimitNear'
    BY <2>1, <2>2, <2>3, <2>4 DEF LimitNear
  <2>6. NearKnown' /\ RestKnown'
    BY <1>1, <2>1, <2>3 DEF SearchInv, NearKnown, RestKnown
  <2>7. BestKnown'
    BY <1>1, <2>1, <2>3 DEF SearchInv, BestKnown
  <2> QED
    BY <2>5, <2>6, <2>7
<1> QED
  BY <1>1, <1>5, <1>6

LEMMA LimitTurnMore ==
    ASSUME SearchInv, LimitTurn
    PROVE  NearKnown' /\ LimitNear' /\ BestKnown' /\ RestKnown'
<1>1. /\ pc = "limit" /\ updated' = PulledBack(probe.masked, updated)
      /\ turns < Thresholds.limit /\ turns' = turns + 1
      /\ UNCHANGED <<db, pc, probe, todo, match, winner, last, commands, repeats>>
  BY DEF LimitTurn
<1>2. /\ todo # {} /\ NextUser \in Enrolled /\ probe \in Sample
      /\ updated \in EntryType /\ db[NextUser] \in EntryType /\ EntryInRange(db[NextUser])
      /\ Usable(db[NextUser])
  BY <1>1, LimitFacts, EntryFacts DEF SearchInv, Near
<1>3. /\ Match(NextUser).blend /\ turns \in 0..Thresholds.limit
      /\ InRange(updated.enrolled) /\ InRange(updated.withoutMask)
      /\ probe.masked => updated.withoutMask = db[NextUser].withoutMask
  BY <1>1 DEF SearchInv, LimitNear
<1>4. Thresholds.limit \in {100, 400}
  BY <1>2, <1>3, MatchIs DEF Match, Thresholds
<1>5. turns' \in 0..Thresholds.limit
  BY <1>1, <1>3, <1>4
<1>6. /\ InRange(updated'.enrolled) /\ InRange(updated'.withoutMask)
      /\ probe.masked => updated'.withoutMask = db[NextUser].withoutMask
  BY <1>1, <1>2, <1>3, PulledNear DEF Sample
<1>7. /\ NextUser' = NextUser /\ Enrolled' = Enrolled /\ Looked' = Looked
      /\ Thresholds' = Thresholds /\ \A u : Match(u)' = Match(u)
  BY <1>1 DEF NextUser, Enrolled, Looked, Thresholds, Match
<1>8. LimitNear'
  BY <1>1, <1>3, <1>5, <1>6, <1>7 DEF LimitNear
<1>9. NearKnown' /\ RestKnown'
  BY <1>1, <1>7 DEF SearchInv, NearKnown, RestKnown
<1>10. BestKnown'
  BY <1>1, <1>7 DEF SearchInv, BestKnown
<1> QED
  BY <1>8, <1>9, <1>10

\* However the limiting ends: its entry is used only when it came near again.
LEMMA LimitOverMore ==
    ASSUME SearchInv, LimitFails \/ LimitEnds
    PROVE  NearKnown' /\ LimitNear' /\ BestKnown' /\ RestKnown'
<1>1. pc = "limit"
  BY DEF LimitFails, LimitEnds
<1>2. /\ todo # {} /\ NextUser \in Enrolled /\ probe \in Sample /\ probe.masked \in BOOLEAN
      /\ updated \in EntryType /\ EntryInRange(updated) /\ (probe.masked => updated.maskValid)
      /\ updated.enrolled = db[NextUser].enrolled /\ match = Match(NextUser)
      /\ Near(db[NextUser])
  BY <1>1, LimitFacts, EntryFacts DEF SearchInv, Sample
<1>3. /\ InRange(updated.enrolled) /\ InRange(updated.withoutMask)
      /\ probe.masked => updated.withoutMask = db[NextUser].withoutMask
  BY <1>1 DEF SearchInv, LimitNear
<1>4. CASE LimitFails
  <2>1. Keep(Match(NextUser), FALSE, PulledBack(probe.masked, updated))
    BY <1>2, <1>4 DEF LimitFails
  <2>2. PulledBack(probe.masked, updated) \in EntryType
    BY <1>2, PulledOk
  <2> QED
    BY <1>1, <1>2, <2>1, <2>2, KeepMore
<1>5. CASE LimitEnds
  <2>1. Keep(Match(NextUser), TRUE, updated) /\ ~FarFromAnchor(probe.masked, updated)
    BY <1>2, <1>5 DEF LimitEnds
  <2>2. NearEnrolled(updated)
    <3>1. CASE probe.masked
      BY <1>2, <1>3, <3>1 DEF Near, NearEnrolled
    <3>2. CASE ~probe.masked
      <4>1. MatchTwoVectors(updated.withoutMask, updated.enrolled) \in Int
        BY <1>2, <1>3, ScoresAreNumbers DEF EntryType
      <4>2. ~(MatchTwoVectors(updated.withoutMask, updated.enrolled) < IdenticalThreshold)
        BY <2>1, <3>2 DEF FarFromAnchor, AdaptiveVector, AnchorVector
      <4> QED
        BY <4>1, <4>2 DEF NearEnrolled, IdenticalThreshold
    <3> QED
      BY <3>1, <3>2
  <2>3. Near(updated)
    BY <1>3, <2>2 DEF Near, Usable
  <2> QED
    BY <1>1, <1>2, <2>1, <2>3, KeepMore
<1> QED
  BY <1>4, <1>5

LEMMA ApplyMore ==
    ASSUME SearchInv, ApplyUpdate PROVE NearKnown' /\ LimitNear' /\ BestKnown' /\ RestKnown'
<1>1. /\ pc = "search" /\ todo = {} /\ todo' = {} /\ pc' = "menu" /\ winner' = NoWinner
      /\ probe' = NoEntry /\ UNCHANGED <<match, updated, turns, last, commands, repeats>>
      /\ db' = IF winner.id # NoUser /\ winner.shouldUpdate
               THEN [db EXCEPT ![winner.id] = winner.entry] ELSE db
  BY DEF ApplyUpdate
<1>2. \A u \in Enrolled : Near(db[u])
  BY DEF SearchInv, NearKnown
<1>3. Enrolled' = Enrolled /\ \A u \in Enrolled : Near(db'[u])
  <2>1. CASE winner.id # NoUser /\ winner.shouldUpdate
    <3>1. Near(winner.entry)
      BY <1>1, <2>1 DEF SearchInv, NearKnown, NoWinner
    <3> QED
      BY <1>1, <1>2, <2>1, <3>1 DEF Enrolled
  <2>2. CASE ~(winner.id # NoUser /\ winner.shouldUpdate)
    BY <1>1, <1>2, <2>2 DEF Enrolled
  <2> QED
    BY <2>1, <2>2
<1>4. NearKnown'
  BY <1>1, <1>3 DEF NearKnown
<1>5. DOMAIN db' = Enrolled' /\ db' = [u \in Enrolled' |-> db'[u]]
  BY <1>1 DEF SearchInv, RestKnown, Enrolled
<1>6. RestKnown'
  BY <1>1, <1>5 DEF SearchInv, RestKnown
<1> QED
  BY <1>1, <1>4, <1>6 DEF LimitNear, BestKnown

-----------------------------------------------------------------------------
(* The commands.                                                            *)

LEMMA CommandMore ==
    ASSUME SearchInv, NEW s, s \in Samples \/ s = NoEntry, Command(s)
    PROVE  /\ pc = "menu" /\ last' \in Samples \cup {NoEntry}
           /\ commands' \in 0..MaxCommands /\ repeats' \in 0..MaxRepeats
<1>1. commands \in 0..MaxCommands /\ repeats \in 0..MaxRepeats /\ MaxCommands \in Nat /\ MaxRepeats \in Nat
  BY BoundAssumption DEF SearchInv, RestKnown
<1>2. /\ commands' = commands \/ commands' = commands + 1
      /\ repeats' = 0 \/ (repeats < MaxRepeats /\ repeats' = repeats + 1)
      /\ commands' <= MaxCommands /\ pc = "menu" /\ last' = s
  BY DEF Command
<1> QED
  BY <1>1, <1>2

LEMMA EnrollMore ==
    ASSUME SearchInv, NEW u \in Users, NEW s \in Samples, EnrollFaceprints(u, s)
    PROVE  NearKnown' /\ LimitNear' /\ BestKnown' /\ RestKnown'
<1> DEFINE old == IF u \in Enrolled THEN db[u].withMask ELSE NoVector
           entry == [version |-> s.version, type |-> s.type, enrolled |-> s.features,
                     withoutMask |-> s.features, withMask |-> old, maskValid |-> FALSE]
<1>1. /\ pc = "menu" /\ db' = [w \in Enrolled \cup {u} |-> IF w = u THEN entry ELSE db[w]]
      /\ UNCHANGED <<pc, probe, todo, match, updated, turns, winner>>
  BY DEF EnrollFaceprints, Command
<1>2. Near(entry)
  BY DEF Near, NearEnrolled, Usable
<1> HIDE DEF entry
<1>3. Enrolled' = Enrolled \cup {u} /\ DOMAIN db' = Enrolled' /\ db' = [w \in Enrolled' |-> db'[w]]
  BY <1>1 DEF Enrolled
<1>4. \A w \in Enrolled' : Near(db'[w])
  BY <1>1, <1>2, <1>3 DEF SearchInv, NearKnown
<1>5. /\ last' \in Samples \cup {NoEntry}
      /\ commands' \in 0..MaxCommands /\ repeats' \in 0..MaxRepeats
  BY CommandMore DEF EnrollFaceprints
<1>6. RestKnown'
  BY <1>1, <1>3, <1>5 DEF SearchInv, RestKnown
<1> QED
  BY <1>1, <1>4, <1>6 DEF NearKnown, LimitNear, BestKnown

LEMMA OtherCommandMore ==
    ASSUME SearchInv, DeleteAll \/ \E s \in Samples : AuthenticateFaceprints(s)
    PROVE  NearKnown' /\ LimitNear' /\ BestKnown' /\ RestKnown'
<1>1. /\ last' \in Samples \cup {NoEntry} /\ pc = "menu"
      /\ commands' \in 0..MaxCommands /\ repeats' \in 0..MaxRepeats
  BY CommandMore DEF DeleteAll, AuthenticateFaceprints
<1>2. CASE DeleteAll
  <2>1. db' = [u \in {} |-> NoEntry] /\ UNCHANGED <<pc, probe, todo, match, updated, turns, winner>>
    BY <1>2 DEF DeleteAll
  <2>2. Enrolled' = {} /\ DOMAIN db' = Enrolled' /\ db' = [u \in Enrolled' |-> db'[u]]
    BY <2>1 DEF Enrolled
  <2>3. RestKnown'
    BY <1>1, <2>1, <2>2 DEF SearchInv, RestKnown
  <2> QED
    BY <1>1, <2>1, <2>2, <2>3 DEF NearKnown, LimitNear, BestKnown
<1>3. ASSUME NEW s \in Samples, AuthenticateFaceprints(s)
      PROVE  NearKnown' /\ LimitNear' /\ BestKnown' /\ RestKnown'
  <2>1. /\ pc' = "search" /\ probe' = s /\ todo' = Enrolled /\ winner' = NoWinner
        /\ UNCHANGED <<db, match, updated, turns>>
    BY <1>3 DEF AuthenticateFaceprints
  <2>2. Enrolled' = Enrolled /\ Looked' = {}
    BY <2>1 DEF Enrolled, Looked
  <2>3. s # NoEntry
    <3>1. s.type \in {"W10", "RGB"} /\ NoEntry.type = "none"
      BY SampleType DEF Sample, NoEntry
    <3> QED
      BY <3>1
  <2>4. RestKnown'
    BY <1>1, <2>1, <2>2, <2>3 DEF SearchInv, RestKnown
  <2> QED
    BY <2>1, <2>2, <2>4 DEF SearchInv, NearKnown, LimitNear, BestKnown
<1> QED
  BY <1>2, <1>3

LEMMA SearchInvInit == Init => SearchInv
<1> SUFFICES ASSUME Init PROVE SearchInv
  OBVIOUS
<1>1. Enrolled = {} /\ DOMAIN db = Enrolled /\ db = [u \in Enrolled |-> db[u]]
  BY DEF Init, Enrolled
<1>2. RestKnown
  BY <1>1, BoundAssumption DEF Init, RestKnown
<1> QED
  BY <1>1, <1>2, HostInvInit DEF Init, SearchInv, NearKnown, LimitNear, BestKnown

LEMMA SearchInvStep == SearchInv /\ [Next]_vars => SearchInv'
<1> SUFFICES ASSUME SearchInv, [Next]_vars PROVE SearchInv'
  OBVIOUS
<1>1. HostInv'
  BY HostInvStep DEF SearchInv
<1>2. NearKnown' /\ LimitNear' /\ BestKnown' /\ RestKnown'
  <2>1. CASE UNCHANGED vars \/ OtherOption
    <3>1. UNCHANGED vars
      BY <2>1 DEF OtherOption
    <3>2. Enrolled' = Enrolled /\ NextUser' = NextUser /\ Looked' = Looked /\ Thresholds' = Thresholds
          /\ \A u : Match(u)' = Match(u)
      BY <3>1 DEF vars, Enrolled, NextUser, Looked, Thresholds, Match
    <3>3. NearKnown' /\ LimitNear'
      BY <3>1, <3>2 DEF vars, SearchInv, NearKnown, LimitNear
    <3>4. BestKnown' /\ RestKnown'
      BY <3>1, <3>2 DEF vars, SearchInv, BestKnown, RestKnown
    <3> QED
      BY <3>3, <3>4
  <2>2. CASE Search
    BY <2>2, SearchUserMore, LimitTurnMore, LimitOverMore, ApplyMore DEF Search
  <2>3. CASE \E u \in Users, s \in Samples : EnrollFaceprints(u, s)
    BY <2>3, EnrollMore
  <2>4. CASE DeleteAll \/ \E s \in Samples : AuthenticateFaceprints(s)
    BY <2>4, OtherCommandMore
  <2> QED
    BY <2>1, <2>2, <2>3, <2>4 DEF Next
<1> QED
  BY <1>1, <1>2 DEF SearchInv

\* The invariant of the search: entries near what was enrolled, and the best of the users looked at.
THEOREM SearchInvariant == Spec => []SearchInv
BY SearchInvInit, SearchInvStep, PTL DEF Spec

\* However many authentications an entry goes through, the vector that is compared with is the
\* enrolled one or scores as identical with it: LimitAdaptiveVector pulls it back or drops it.
THEOREM AdaptiveNearEnrolledHolds == Spec => []AdaptiveNearEnrolled
<1>1. SearchInv => AdaptiveNearEnrolled
  BY DEF SearchInv, NearKnown, Near, AdaptiveNearEnrolled
<1> QED
  BY <1>1, SearchInvariant, PTL

\* The loop over the database of any size ends with its first best match, and with none only when
\* no entry matches.
THEOREM WinnerIsBestHolds == Spec => []WinnerIsBest
<1>1. SearchInv => WinnerIsBest
  <2> SUFFICES ASSUME SearchInv, pc = "search", todo = {} PROVE WinnerIsBest
    BY DEF WinnerIsBest
  <2>1. Looked = Enrolled
    BY DEF Looked
  <2> QED
    BY <2>1 DEF SearchInv, BestKnown, WinnerIsBest
<1> QED
  BY <1>1, SearchInvariant, PTL

\* The types of server mode's variables; between two commands nothing of a search is left.
THEOREM HostTypeCorrect == Spec => []HostTypeOK
<1>1. ASSUME SearchInv PROVE HostTypeOK
  <2>1. Enrolled \subseteq Users /\ db \in [Enrolled -> EntryType]
    BY <1>1 DEF SearchInv, HostInv, EntriesKnown, RestKnown
  <2>2. todo \subseteq Enrolled
    BY <1>1 DEF SearchInv, HostInv, SearchKnown, RestKnown
  <2>3. /\ match \in MatchType /\ updated \in EntryType \cup {NoEntry} /\ turns \in 0..400
        /\ pc = "limit" => (todo # {} /\ updated \in EntryType)
    <3>1. CASE pc # "limit"
      <4>1. NoMatch \in MatchType
        BY DEF NoMatch, MatchType
      <4>2. match = NoMatch /\ updated = NoEntry /\ turns = 0
        BY <1>1, <3>1 DEF SearchInv, RestKnown
      <4> QED
        BY <3>1, <4>1, <4>2
    <3>2. CASE pc = "limit"
      <4>1. /\ todo # {} /\ NextUser \in Enrolled /\ probe \in Sample
            /\ updated \in EntryType /\ match = Match(NextUser)
        BY <1>1, <3>2, LimitFacts DEF SearchInv
      <4>2. /\ db[NextUser] \in EntryType /\ EntryInRange(db[NextUser]) /\ Usable(db[NextUser])
            /\ Match(NextUser) \in MatchType
        BY <1>1, <4>1, EntryFacts DEF Near
      <4>3. Match(NextUser).blend /\ turns \in 0..Thresholds.limit
        BY <1>1, <3>2 DEF SearchInv, LimitNear
      <4>4. Thresholds.limit \in {100, 400}
        BY <4>1, <4>2, <4>3, MatchIs DEF Match, Thresholds
      <4>5. turns \in 0..400
        BY <4>3, <4>4
      <4> QED
        BY <3>2, <4>1, <4>2, <4>5
    <3> QED
      BY <3>1, <3>2
  <2>4. \/ winner = NoWinner
        \/ winner \in [id : Enrolled, score : Int, shouldUpdate : BOOLEAN, entry : EntryType]
    <3> SUFFICES ASSUME winner # NoWinner
                 PROVE  winner \in [id : Enrolled, score : Int, shouldUpdate : BOOLEAN, entry : EntryType]
      OBVIOUS
    <3>1. pc # "menu" /\ winner.id \in Enrolled /\ winner.score = Match(winner.id).score
          /\ winner.shouldUpdate \in BOOLEAN /\ winner.entry \in EntryType
          /\ winner = [id |-> winner.id, score |-> winner.score,
                       shouldUpdate |-> winner.shouldUpdate, entry |-> winner.entry]
      BY <1>1 DEF SearchInv, RestKnown, BestKnown, Looked
    <3>2. winner.score \in Int
      BY <1>1, <3>1, EntryFacts DEF SearchInv, HostInv, SearchKnown, MatchType
    <3> QED
      BY <3>1, <3>2
  <2> QED
    BY <1>1, <2>1, <2>2, <2>3, <2>4 DEF SearchInv, RestKnown, HostTypeOK
<1> QED
  BY <1>1, SearchInvariant, PTL

=============================================================================
