------------------------------- MODULE Matcher -------------------------------
(***************************************************************************)
(* The face matcher of the host: integer arithmetic on feature vectors.    *)
(* A vector is a function of the features to integers, its flag (the last   *)
(* element of the code's array) kept apart; a stored faceprint is a record  *)
(* of its version, its type, the enrolled vector, the adaptive vector and   *)
(* the adaptive vector with mask, with that vector's flag.  The loop of     *)
(* LimitAdaptiveVector is left to the caller's steps (see HostMode).        *)
(***************************************************************************)
EXTENDS Integers, FiniteSets, Functions

MaxFeature == 1023              \* RSID_MAX_FEATURE_VALUE
HistoryWeight == 30             \* RSID_UPDATE_GALLERY_HISTORY_WEIGHT
MaxScore == 4096                \* RSID_MAX_POSSIBLE_SCORE

InRange(vec) == \A i \in DOMAIN vec : vec[i] \in -MaxFeature .. MaxFeature

\* (Variant for the mutant runs: the sum is divided by the weight of the history alone.)
BlendFeatureTooLarge(a, n) == ((2 * HistoryWeight * a) + (2 * n)) \div (2 * HistoryWeight)

(***************************************************************************)
(* One feature of the weighted average, 30 parts of the adaptive vector and *)
(* one of the new one, rounded half away from zero (the division truncates).*)
(* The code clamps a copy of the value and stores the value itself.         *)
(***************************************************************************)
BlendFeature(a, n) ==
    LET v     == (2 * HistoryWeight * a) + (2 * n)
        round == HistoryWeight + 1
    IN  IF v >= 0 THEN (v + round) \div (2 * round)
                  ELSE -((round - v) \div (2 * round))

BlendAverageVector(adaptive, new) ==
    [i \in DOMAIN adaptive |-> BlendFeature(adaptive[i], new[i])]

-----------------------------------------------------------------------------
(***************************************************************************)
(* The score: the square of the cosine, scaled to 0 .. 4096, in 32-bit      *)
(* unsigned arithmetic.  TLC's integers have 32 bits too, so the quotient   *)
(* of a shifted number and the product are taken in two halves.            *)
(***************************************************************************)
Dot(u, v) == SumFunction([i \in DOMAIN u |-> u[i] * v[i]])

\* The number of significant bits of x.
GetMsb[x \in Nat] == IF x = 0 THEN 0 ELSE 1 + GetMsb[x \div 2]

\* (u << shift) / n, the shift in two halves.
ShiftDivide(u, shift, n) ==
    LET half  == shift \div 2
        first == (u % n) * 2^half
        last  == (first % n) * 2^(shift - half)
    IN  ((u \div n) * 2^shift) + ((first \div n) * 2^(shift - half)) + (last \div n)

\* (a * b mod 2^32) >> back, for a back between -16 and 31 and a, b < 2^18:
\* the product is high * 2^16 + low, high keeping its 16 lower bits.
MultiplyShift(a, b, back) ==
    LET ah == a \div 256   al == a % 256
        bh == b \div 256   bl == b % 256
        middle == (ah * bl) + (al * bh) + ((al * bl) \div 256)
        high == ((ah * bh) + (middle \div 256)) % 65536
        low  == (256 * (middle % 256)) + ((al * bl) % 256)
    IN  CASE back > 16      -> high \div 2^(back - 16)
          [] back \in 0..16 -> (high * 2^(16 - back)) + (low \div 2^back)
          [] OTHER          -> ((high * 65536) + low) * 2^(-back)

AtMost(x, y) == IF x < y THEN x ELSE y
AtLeast(x, y) == IF x > y THEN x ELSE y

\* The shift of the correlation before it is divided by a norm.
Shift(corr, norm) ==
    AtMost(16 - AtLeast(GetMsb[corr] - GetMsb[norm], 0), 32 - GetMsb[corr])

\* (Variant: scaled to 8192 and not to 4096.)
GradeTwice(corr, norm1, norm2, shift1, shift2) ==
    MultiplyShift(ShiftDivide(corr, shift1, norm1), ShiftDivide(corr, shift2, norm2),
                  shift1 + shift2 - 13)

Grade(corr, norm1, norm2, shift1, shift2) ==
    MultiplyShift(ShiftDivide(corr, shift1, norm1), ShiftDivide(corr, shift2, norm2),
                  shift1 + shift2 - 12)

Score(corr, norm1, norm2) ==
    Grade(corr, norm1, norm2, Shift(corr, norm1), Shift(corr, norm2))

\* A negative correlation counts as none, and a norm is at least 1.
MatchTwoVectors(u, v) ==
    Score(AtLeast(Dot(u, v), 0), AtLeast(Dot(u, u), 1), AtLeast(Dot(v, v), 1))

\* Two straight lines from the score to the confidence, 11 bits of headroom:
\* 95 at 1228 to 99 at 2754, and 60 at 800 to 95 at 1228.
CalculateConfidence(score) ==
    LET line == CASE score >= 1228 -> (((4 * 2048) \div 1526) * (score - 1228)) + (95 * 2048)
                  [] score \in 800 .. 1227 -> (((35 * 2048) \div 428) * (score - 800)) + (60 * 2048)
                  [] OTHER -> 0
    IN  AtMost((AtLeast(line, 0) + 1024) \div 2048, 100)

-----------------------------------------------------------------------------
IdenticalThreshold == 2754      \* the same with and without mask

\* The thresholds for a probe with or without mask against one stored entry.
HandleThresholdsConfiguration(masked, entry) ==
    CASE ~masked ->
            [config |-> "pNM_gNM", update |-> 1745, limit |-> 100,
             strong |-> IF entry.type = "RGB" THEN 600 ELSE 1228]
      [] masked /\ entry.maskValid ->
            [config |-> "pM_gM", update |-> 1745, limit |-> 400, strong |-> 1318]
      [] OTHER ->
            [config |-> "pM_gNM", update |-> 1450, limit |-> 400, strong |-> 965]

\* The vector of an entry that a probe is compared with.
GalleryVector(masked, entry) ==
    IF masked /\ entry.maskValid THEN entry.withMask ELSE entry.withoutMask

\* GetScores checks the range of one stored vector only, and the version.
Comparable(probe, entry) ==
    /\ InRange(probe.features)
    /\ InRange(entry.withoutMask)
    /\ probe.version = entry.version

NoMatch == [isSame |-> FALSE, score |-> 0, shouldUpdate |-> FALSE, blend |-> FALSE]

\* GetScores: the best score of an array of one entry.  FaceMatch leaves the rest of its result
\* to the thresholds.
GetScores(probe, entry) == MatchTwoVectors(probe.features, GalleryVector(probe.masked, entry))
FaceMatch(probe, entry) == [NoMatch EXCEPT !.score = GetScores(probe, entry)]

(***************************************************************************)
(* MatchFaceprints against one entry, up to the call of LimitAdaptiveVector:*)
(* whether it is the same face, the score, whether to update the entry, and *)
(* whether an adaptive vector is to be blended (an entry of type W10).  An  *)
(* RGB entry takes the probe as it is, when the probe has no mask; a masked *)
(* W10 probe never matches an RGB entry.                                    *)
(***************************************************************************)
MatchFaceprints(probe, entry) ==
    IF ~Comparable(probe, entry) THEN NoMatch ELSE
    LET score    == FaceMatch(probe, entry).score
        t        == HandleThresholdsConfiguration(probe.masked, entry)
        same     == score > t.strong
        refused  == entry.type # "W10" /\ probe.type = "W10" /\ probe.masked
        replaced == entry.type # "W10" /\ probe.type = "W10" /\ ~probe.masked
    IN  [isSame       |-> same /\ ~refused,
         score        |-> score,
         shouldUpdate |-> same /\ (score >= t.update \/ replaced),
         blend        |-> same /\ score >= t.update /\ entry.type = "W10"]

\* The entry after a match that blends nothing: an RGB entry that matched a
\* W10 probe without mask is reset as if it had just been enrolled.
ReplacedEntry(probe, entry) ==
    IF entry.type # "W10" /\ probe.type = "W10" /\ ~probe.masked
      THEN [entry EXCEPT !.type = probe.type, !.version = probe.version,
                         !.withoutMask = probe.features, !.enrolled = probe.features,
                         !.maskValid = FALSE]
      ELSE entry

\* The entry with its adaptive vector blended once with the probe.
BlendedEntry(probe, entry) ==
    CASE ~probe.masked ->
            [entry EXCEPT !.withoutMask = BlendAverageVector(@, probe.features)]
      [] probe.masked /\ entry.maskValid ->
            [entry EXCEPT !.withMask = BlendAverageVector(@, probe.features)]
      [] OTHER ->
            [entry EXCEPT !.withMask = BlendAverageVector(probe.features, probe.features),
                          !.maskValid = TRUE]

\* LimitAdaptiveVector's two vectors: the one that was blended, and the one it
\* may not drift away from.
AdaptiveVector(masked, entry) == IF masked THEN entry.withMask ELSE entry.withoutMask
AnchorVector(masked, entry) == IF masked THEN entry.withoutMask ELSE entry.enrolled

\* One turn of its loop.
PulledBack(masked, entry) ==
    LET pulled == BlendAverageVector(AdaptiveVector(masked, entry), AnchorVector(masked, entry))
    IN  IF masked THEN [entry EXCEPT !.withMask = pulled]
                  ELSE [entry EXCEPT !.withoutMask = pulled]

\* (Variant: the threshold of the update is taken.)
FarFromUpdate(masked, entry) ==
    MatchTwoVectors(AdaptiveVector(masked, entry), AnchorVector(masked, entry)) < 1745

FarFromAnchor(masked, entry) ==
    MatchTwoVectors(AdaptiveVector(masked, entry), AnchorVector(masked, entry))
        < IdenticalThreshold
=============================================================================
