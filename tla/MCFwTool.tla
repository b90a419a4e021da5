------------------------------ MODULE MCFwTool ------------------------------
(***************************************************************************)
(* Instances of FwTool and FwFile for TLC: modules of two blocks,            *)
(* changed in one block or of another size on the device.                   *)
(***************************************************************************)
EXTENDS FwTool

MCOldModules == {<<"new", "old">>, <<"new", "new", "old">>}
MCMajors == 2..4

\* Files of modules of one and a half blocks: two that can be used, one without the recognition,
\* one of an unknown module, one that is damaged.
MCEntry(name, sound) == [name |-> name, size |-> 12, sound |-> sound]
MCFile(otp, entries) == [header |-> TRUE, otp |-> otp, entries |-> entries]
MCGood == <<MCEntry("OPFW", TRUE), MCEntry("RECOG", TRUE)>>
MCFiles == {MCFile(0, MCGood), MCFile(1, MCGood), MCFile(0, SubSeq(MCGood, 1, 1)),
            MCFile(0, Append(MCGood, MCEntry("OTHER", TRUE))),
            MCFile(0, <<MCEntry("OPFW", TRUE), MCEntry("RECOG", FALSE)>>)}

\* The loop of ParseUfifToModules that cuts the blocks, and what BlockTable says of it, for every
\* size up to five blocks.
MCSizes == 0..(5 * BlockSize)
MCLeft(size) == LET left[i \in Nat] == IF i = 0 THEN CrcSize(size)
                                       ELSE left[i - 1] - Lower(left[i - 1], BlockSize)
                IN left
ASSUME LoopAssumption ==
    \A size \in MCSizes : \A i \in 1..NBlocks(size) :
        /\ BlockTable(size)[i].size = Lower(MCLeft(size)[i - 1], BlockSize)
        /\ MCLeft(size)[NBlocks(size)] = 0
=============================================================================
