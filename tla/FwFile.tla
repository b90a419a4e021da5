------------------------------- MODULE FwFile -------------------------------
(***************************************************************************)
(* The firmware file (FwUpdate/Utilities.cc): its modules, and the table of *)
(* blocks in which a module is compared with the device's and sent to it.   *)
(* A file is a header and one entry for each module; whether what an entry  *)
(* says of its module can be read and agrees with the module (digest header, *)
(* id, version, length, checksum) is its "sound".                           *)
(***************************************************************************)
EXTENDS Integers, Sequences

CONSTANTS
    BlockSize, \* FwUpdateEngine::BlockSize
    PageSize,  \* a module's buffer is so aligned: 4096
    Word       \* and the bytes its checksum covers so: 4

ASSUME FileAssumption ==
    /\ BlockSize \in Nat \ {0} /\ PageSize \in Nat \ {0} /\ Word \in Nat \ {0}
    /\ PageSize % Word = 0 /\ BlockSize % PageSize = 0

AllowedModules == {"OPFW", "NNLED", "NNLAS", "DNET", "RECOG", "YOLO", "AS2DLR"}

\* n aligned; the sum stays below 2^32 for every file that is shorter by a page.
RoundUp(n, to) == ((n + to - 1) \div to) * to
AlignedSize(size) == RoundUp(size, PageSize)
CrcSize(size) == RoundUp(size, Word)

Lower(a, b) == IF a < b THEN a ELSE b

NBlocks(size) ==
    (AlignedSize(size) \div BlockSize) + (IF AlignedSize(size) % BlockSize = 0 THEN 0 ELSE 1)

\* The blocks are cut from the bytes the checksum covers until none are left.
BlockTable(size) ==
    [i \in 1..NBlocks(size) |->
        [offset |-> (i - 1) * BlockSize, size |-> Lower(CrcSize(size) - (i - 1) * BlockSize, BlockSize)]]

\* One entry that is not sound makes the whole file unreadable.
Unreadable == [readable |-> FALSE]
ParseUfifToModules(file) ==
    IF file.header /\ \A k \in 1..Len(file.entries) : file.entries[k].sound
    THEN [readable |-> TRUE,
          modules |-> [k \in 1..Len(file.entries) |->
              [name |-> file.entries[k].name, size |-> file.entries[k].size,
               blocks |-> BlockTable(file.entries[k].size)]]]
    ELSE Unreadable

\* So does a module of an unknown name.
ModulesFromFile(file) ==
    LET parsed == ParseUfifToModules(file) IN
    IF parsed.readable /\ \A k \in 1..Len(parsed.modules) : parsed.modules[k].name \in AllowedModules
    THEN parsed ELSE Unreadable

\* Only the header is looked at; a bad one is an exception.
ParseUfifToOtpEncryption(file) == IF file.header THEN [readable |-> TRUE, otp |-> file.otp] ELSE Unreadable

\* The names of the modules, of which the operational firmware and the recognition have to be
\* there; else there is nothing to update with.
ExtractFwInformation(file) ==
    LET parsed == ModulesFromFile(file)
        names == {parsed.modules[k].name : k \in 1..Len(parsed.modules)}
    IN IF parsed.readable /\ {"OPFW", "RECOG"} \subseteq names THEN names ELSE {}

=============================================================================
