------------------------------ MODULE HostMode ------------------------------
(***************************************************************************)
(* Server mode of the command line tool: the database of faceprints is kept *)
(* on the host.  Enrolling stores what the device extracted; authenticating *)
(* matches what the device extracted with every entry in turn, takes the    *)
(* best match, and replaces that entry by the updated one of the matcher.   *)
(***************************************************************************)
EXTENDS Matcher

CONSTANTS Users,        \* 1 .. n, in the order of the map's keys
          Features,     \* the positions of a vector
          Samples,      \* the extracted faceprints the device may send
          NoVector,     \* the memory of a vector nothing was written to
          MaxCommands,  \* bound: commands, an authentication of the same face as the
                        \* last command's not counted again,
          MaxRepeats    \* bound: up to so many times

ASSUME UsersAssumption == Users \subseteq Nat /\ IsFiniteSet(Users)
ASSUME FeaturesAssumption == IsFiniteSet(Features) /\ Cardinality(Features) <= 256
ASSUME SamplesAssumption ==
    Samples \subseteq [version : Int, type : {"W10", "RGB"}, masked : BOOLEAN,
                       features : [Features -> Int]]
ASSUME BoundAssumption == MaxCommands \in Nat /\ MaxRepeats \in Nat

VARIABLES
    db,         \* s_user_faceprint_db
    pc,         \* "menu"; in OnResult of an authentication "search" or "limit"
    probe,      \* scanned_faceprint
    todo,       \* the users the search has still to look at
    match,      \* the result of a match whose update is not finished
    updated,    \* updated_faceprint, while LimitAdaptiveVector works on it
    turns,      \* cnt_iter there
    winner,     \* the winning id, score, should_update and updated faceprints
    last,       \* the faceprints of the last authentication (for the bounds)
    commands, repeats

vars == <<db, pc, probe, todo, match, updated, turns, winner, last, commands, repeats>>

NoUser == -1
NoWinner == [id |-> NoUser, score |-> -1]
NoEntry == [type |-> "none"]

Enrolled == DOMAIN db
NextUser == CHOOSE u \in todo : \A w \in todo : u <= w

Init ==
    /\ db = [u \in {} |-> NoEntry]
    /\ pc = "menu"
    /\ probe = NoEntry
    /\ todo = {}
    /\ match = NoMatch
    /\ updated = NoEntry
    /\ turns = 0
    /\ winner = NoWinner
    /\ last = NoEntry
    /\ commands = 0
    /\ repeats = 0

Command(s) ==
    /\ pc = "menu"
    /\ last' = s
    /\ LET again == s # NoEntry /\ s = last /\ repeats < MaxRepeats
       IN  /\ commands' = IF again THEN commands ELSE commands + 1
           /\ repeats' = IF again THEN repeats + 1 ELSE 0
    /\ commands' <= MaxCommands

\* 'E', with the result Success (any other result changes nothing): both
\* vectors are set, and the vector with mask is only marked as not set.
EnrollFaceprints(u, s) ==
    /\ Command(NoEntry)
    /\ LET old == IF u \in Enrolled THEN db[u].withMask ELSE NoVector
           entry == [version |-> s.version, type |-> s.type, enrolled |-> s.features,
                     withoutMask |-> s.features, withMask |-> old, maskValid |-> FALSE]
       IN  db' = [w \in Enrolled \cup {u} |-> IF w = u THEN entry ELSE db[w]]
    /\ UNCHANGED <<pc, probe, todo, match, updated, turns, winner>>

\* 'D'
DeleteAll ==
    /\ Command(NoEntry)
    /\ db' = [u \in {} |-> NoEntry]
    /\ UNCHANGED <<pc, probe, todo, match, updated, turns, winner>>

\* (Variant for the mutant runs: the ids that were deleted are looked at as well.)
AuthenticateEveryId(s) ==
    /\ Command(s)
    /\ pc' = "search"
    /\ probe' = s
    /\ todo' = Users
    /\ winner' = NoWinner
    /\ UNCHANGED <<db, match, updated, turns>>

\* 'A', with the result Success.
AuthenticateFaceprints(s) ==
    /\ Command(s)
    /\ pc' = "search"
    /\ probe' = s
    /\ todo' = Enrolled
    /\ winner' = NoWinner
    /\ UNCHANGED <<db, match, updated, turns>>

\* (Variant: the last of the best scores.)
BetterOrEqual(result) == result.isSame /\ result.score >= winner.score

\* What the loop keeps of a match: the first of the best scores.
Better(result) == result.isSame /\ result.score > winner.score

\* (Variant: the updated faceprints are kept of every match.)
KeepLastEntry(result, shouldUpdate, entry) ==
    /\ winner' = IF Better(result)
                   THEN [id |-> NextUser, score |-> result.score,
                         shouldUpdate |-> shouldUpdate, entry |-> entry]
                   ELSE IF winner = NoWinner THEN winner ELSE [winner EXCEPT !.entry = entry]
    /\ todo' = todo \ {NextUser}
    /\ pc' = "search"
    /\ match' = NoMatch
    /\ updated' = NoEntry
    /\ turns' = 0
    /\ UNCHANGED <<db, probe, last, commands, repeats>>

Keep(result, shouldUpdate, entry) ==
    /\ winner' = IF Better(result)
                   THEN [id |-> NextUser, score |-> result.score,
                         shouldUpdate |-> shouldUpdate, entry |-> entry]
                   ELSE winner
    /\ todo' = todo \ {NextUser}
    /\ pc' = "search"
    /\ match' = NoMatch
    /\ updated' = NoEntry
    /\ turns' = 0
    /\ UNCHANGED <<db, probe, last, commands, repeats>>

\* A match in which no vector is blended.
MatchUser(result) ==
    /\ ~result.blend
    /\ Keep(result, result.shouldUpdate, ReplacedEntry(probe, db[NextUser]))

\* A match that updates an adaptive vector: blended with the probe, and then
\* with its anchor until it is near that again.
BlendUser(result) ==
    /\ result.blend
    /\ match' = result
    /\ updated' = BlendedEntry(probe, db[NextUser])
    /\ turns' = 0
    /\ pc' = "limit"
    /\ UNCHANGED <<db, probe, todo, winner, last, commands, repeats>>

SearchUser ==
    /\ pc = "search" /\ todo # {}
    /\ \E result \in {MatchFaceprints(probe, db[NextUser])} :
          MatchUser(result) \/ BlendUser(result)

Thresholds == HandleThresholdsConfiguration(probe.masked, db[NextUser])

LimitTurn ==
    /\ pc = "limit"
    /\ FarFromAnchor(probe.masked, updated)
    /\ turns < Thresholds.limit
    /\ updated' = PulledBack(probe.masked, updated)
    /\ turns' = turns + 1
    /\ UNCHANGED <<db, pc, probe, todo, match, winner, last, commands, repeats>>

\* The turn after the last one that is allowed fails: no update then, though
\* the match stays a match.
LimitFails ==
    /\ pc = "limit"
    /\ FarFromAnchor(probe.masked, updated)
    /\ turns = Thresholds.limit
    /\ Keep(match, FALSE, PulledBack(probe.masked, updated))

LimitEnds ==
    /\ pc = "limit"
    /\ ~FarFromAnchor(probe.masked, updated)
    /\ Keep(match, TRUE, updated)

\* The end of the search: the winner's entry is replaced.
ApplyUpdate ==
    /\ pc = "search" /\ todo = {}
    /\ db' = IF winner.id # NoUser /\ winner.shouldUpdate
               THEN [db EXCEPT ![winner.id] = winner.entry] ELSE db
    /\ pc' = "menu"
    /\ winner' = NoWinner
    /\ probe' = NoEntry
    /\ UNCHANGED <<todo, match, updated, turns, last, commands, repeats>>

Search == SearchUser \/ LimitTurn \/ LimitFails \/ LimitEnds \/ ApplyUpdate

\* 'q', and the options that do not touch the faceprints.
OtherOption == pc = "menu" /\ UNCHANGED vars

Next ==
    \/ \E u \in Users, s \in Samples : EnrollFaceprints(u, s)
    \/ DeleteAll
    \/ \E s \in Samples : AuthenticateFaceprints(s)
    \/ Search
    \/ OtherOption

Spec == Init /\ [][Next]_vars
-----------------------------------------------------------------------------
Vector == [Features -> Int]

EntryType ==
    [version : Int, type : {"W10", "RGB"}, enrolled : Vector, withoutMask : Vector,
     withMask : Vector \cup {NoVector}, maskValid : BOOLEAN]

MatchType == [isSame : BOOLEAN, score : Int, shouldUpdate : BOOLEAN, blend : BOOLEAN]

\* The type invariant: between two commands nothing of a search is left.
HostTypeOK ==
    /\ Enrolled \subseteq Users
    /\ db \in [Enrolled -> EntryType]
    /\ pc \in {"menu", "search", "limit"}
    /\ probe \in Samples \cup {NoEntry}
    /\ todo \subseteq Enrolled
    /\ match \in MatchType
    /\ updated \in EntryType \cup {NoEntry}
    /\ turns \in 0 .. 400
    /\ \/ winner = NoWinner
       \/ winner \in [id : Enrolled, score : Int, shouldUpdate : BOOLEAN, entry : EntryType]
    /\ last \in Samples \cup {NoEntry}
    /\ commands \in 0 .. MaxCommands
    /\ repeats \in 0 .. MaxRepeats
    /\ (pc = "limit") => (todo # {} /\ updated \in EntryType)
    /\ (pc = "menu") = (probe = NoEntry)
    /\ (pc = "menu") => (winner = NoWinner)

(***************************************************************************)
(* BlendAverageVector clamps a copy that it then drops: the averages it     *)
(* stores stay in the range the matcher needs all the same.  An entry that  *)
(* was enrolled in range stays in range, whatever it is blended with, and   *)
(* a vector with mask is never used before it was written.                  *)
(***************************************************************************)
EntryInRange(entry) ==
    /\ entry.maskValid => entry.withMask \in Vector
    /\ InRange(entry.enrolled) =>
        /\ InRange(entry.withoutMask)
        /\ entry.maskValid => InRange(entry.withMask)

VectorsInRange == \A u \in Enrolled : EntryInRange(db[u])

(***************************************************************************)
(* However many authentications the adaptive vector of an entry went        *)
(* through, it is either the enrolled vector itself or scores as identical  *)
(* with it: a sequence of lookalikes cannot walk an entry away from the     *)
(* face that was enrolled.                                                  *)
(***************************************************************************)
NearEnrolled(entry) ==
    \/ entry.withoutMask = entry.enrolled
    \/ MatchTwoVectors(entry.withoutMask, entry.enrolled) >= IdenticalThreshold

AdaptiveNearEnrolled == \A u \in Enrolled : NearEnrolled(db[u])

(***************************************************************************)
(* The search takes the best of the entries that match, and of equals the   *)
(* first: the loop over the map against its definition.                     *)
(***************************************************************************)
Match(u) == MatchFaceprints(probe, db[u])

WinnerIsBest ==
    pc = "search" /\ todo = {} =>
        IF winner = NoWinner THEN \A u \in Enrolled : ~Match(u).isSame
        ELSE /\ Match(winner.id).isSame
             /\ \A u \in Enrolled : Match(u).isSame =>
                   \/ Match(u).score < winner.score
                   \/ Match(u).score = winner.score /\ winner.id <= u

(***************************************************************************)
(* An authentication never replaces the enrolled vector of an entry of the  *)
(* device's own type, and of an RGB entry only by a W10 probe without mask; *)
(* it leaves every entry but one as it was, and that one only after a match.*)
(***************************************************************************)
AuthenticationKeepsEnrolled ==
    [][pc # "menu" /\ db' # db =>
        /\ Enrolled' = Enrolled
        /\ \E u \in Enrolled :
            /\ \A w \in Enrolled \ {u} : db'[w] = db[w]
            /\ Match(u).isSame
            /\ \/ db'[u].enrolled = db[u].enrolled /\ db'[u].type = db[u].type
               \/ /\ db[u].type # "W10" /\ db'[u].type = "W10" /\ ~probe.masked
                  /\ db'[u].enrolled = probe.features]_vars

(***************************************************************************)
(* The integer score is a score: between 0 and 4096, the same for either   *)
(* order, and a confidence that grows with it. A vector has the whole      *)
(* score with itself when its norm has at least 17 bits. With fewer the    *)
(* two quotients are 2^16 each, their product does not fit into 32 bits,   *)
(* and the vector does not match even itself.                              *)
(***************************************************************************)
ScoresAreSound ==
    pc = "search" /\ todo = Enrolled => \A u \in Enrolled :
        LET vec   == GalleryVector(probe.masked, db[u])
            score == MatchTwoVectors(probe.features, vec)
            self  == MatchTwoVectors(vec, vec)
        IN  InRange(probe.features) /\ InRange(vec) =>
            /\ score \in 0 .. MaxScore
            /\ score = MatchTwoVectors(vec, probe.features)
            /\ self = (IF Dot(vec, vec) >= 65536 THEN MaxScore ELSE 0)
            /\ score <= self => CalculateConfidence(score) <= CalculateConfidence(self)
            /\ score > 1228 => CalculateConfidence(score) >= 95
=============================================================================
