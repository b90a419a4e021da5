------------------------------- MODULE FwTool -------------------------------
(***************************************************************************)
(* The update tool (tools/rsid-fw-update/main.cc) over FwUpdater.cc: find    *)
(* the device, look at the file, decide the policy, ask the user, burn; with *)
(* the policy OPFW_FIRST burn OPFW alone, wait for the device to come back   *)
(* and burn the rest.  Burning is FwUpdate, whose steps it takes meanwhile.  *)
(*                                                                         *)
(* The versions that the device reports are not tied to the blocks it holds:  *)
(* a query may fail, and two builds may have one version.                   *)
(***************************************************************************)
EXTENDS FwUpdate, DeviceController, FwFile

CONSTANTS
    Files,   \* the files the tool may be given
    AutoDetect, \* no port is given: the device is searched for
    Majors,  \* major versions of the operational firmware
    MinWait, \* MIN_WAIT_FOR_DEVICE, in seconds
    MaxWait  \* MAX_WAIT_FOR_DEVICE

ASSUME ToolAssumption ==
    /\ AutoDetect \in BOOLEAN /\ NModules >= 2 /\ Majors \subseteq Nat
    /\ \A file \in Files : ExtractFwInformation(file) # {} =>
          /\ Len(file.entries) = NModules
          /\ file.entries[1].name = "OPFW" /\ file.entries[2].name = "RECOG"
          /\ \A k \in 1..NModules : NBlocks(file.entries[k].size) = Blocks
    /\ MinWait \in Nat /\ MaxWait \in Nat /\ MinWait < MaxWait

VARIABLES
    step,   \* how far main is, and how it ended
    args,   \* the arguments, and of those the ones still needed
    meta,   \* what is known of the selected device
    policy, \* updatePolicyInfo.policy
    names,  \* moduleNames: what the user agreed to
    waited, \* RedetectDevice: seconds
    unseen  \* history: the device was not seen again after the first burning

toolVars == <<step, args, meta, policy, names, waited, unseen>>
allVars == <<vars, toolVars>>

OPFW == 1
RECOG == 2
CriticalMajor == 3
Over == {"off", "failed", "success", "crashed"}
Policies == {"CONTINOUS", "OPFW_FIRST", "REQUIRE_INTERMEDIATE_FW", "NOT_ALLOWED"}

\* The texts of the device: two of its modules with their versions, of which the major number
\* of one and the number of the other (1 is the file's) count, and the serial number, which says
\* how its firmware is encrypted.
VersionTexts ==
    {<<[of |-> "OPFW", says |-> <<a>>], [of |-> "RECOG", says |-> <<b>>]>> : a \in Majors, b \in 1..2}
SerialTexts == {<<[of |-> "SN", says |-> <<otp>>]>> : otp \in 0..1}

Metadata == [recog : {Unknown, <<1>>, <<2>>}, serial : {Unknown, <<0>>, <<1>>}]
NoMetadata == [recog |-> Unknown, serial |-> Unknown]

\* ParseCommandLineArgs; what --interactive and --force-version do is left open in Refuse.
Arguments == [forceFull : BOOLEAN, autoApprove : BOOLEAN]
NoArguments == [forceFull |-> FALSE, autoApprove |-> FALSE]

ToolInit ==
    /\ Init
    /\ step = "off" /\ args = NoArguments /\ meta = NoMetadata
    /\ policy = "NOT_ALLOWED" /\ names = {} /\ waited = MinWait
    /\ unseen = FALSE

-----------------------------------------------------------------------------
(* Before the burning. *)

\* What the queries of the two texts find; what they do not find stays unknown.  They are made
\* also when Connect failed, and then the program dies (MetadataCrash).
MetadataCrash == \E c \in Connect, text \in VersionTexts :
                    \E v \in QueryFirmwareVersion(c, text) : v.status = "crash"
QueryDeviceMetadata ==
    [recog : {ModuleVersion(v.lines, "RECOG") :
                 v \in UNION {QueryFirmwareVersion("Ok", text) : text \in VersionTexts}},
     serial : {ModuleVersion(v.lines, "SN") :
                 v \in UNION {QuerySerialNumber("Ok", text) : text \in SerialTexts}}]

\* Each device that DiscoverDevices finds is queried.  After the burning the one with the serial
\* number is found or not, and is asked to answer a ping.
DetectDevices == QueryDeviceMetadata
IsDeviceAlive == \E c \in Connect : "Ok" \in Ping(c)

\* Main goes on with s, or ends, and what it knew is gone.
Continue(s) ==
    /\ step' = s
    /\ IF s \in Over THEN args' = NoArguments /\ policy' = "NOT_ALLOWED" /\ waited' = MinWait
                      ELSE UNCHANGED <<args, policy, waited>>
    /\ meta' = IF s \in Over THEN NoMetadata ELSE meta

\* The arguments; the device of the given port, or those that DiscoverDevices found.
Start ==
    /\ step \in Over
    /\ \/ step' = "failed" /\ UNCHANGED <<args, meta>>  \* no valid arguments, or no device
       \/ MetadataCrash /\ step' = "crashed" /\ UNCHANGED <<args, meta>>
       \/ step' = "file" /\ args' \in Arguments
          /\ meta' \in IF AutoDetect THEN DetectDevices ELSE QueryDeviceMetadata
    /\ unseen' = FALSE /\ names' = {}
    /\ UNCHANGED <<policy, waited, vars>>

\* A serial number of the newer devices asks for the newer encryption, any other for none.
ExpectedEncryption(serial) == IF serial = <<1>> THEN 1 ELSE 0

\* The files with the two modules; any other is refused.
Usable == {file \in Files : ExtractFwInformation(file) # {}}

\* So is one with an encryption the device does not take.  The encryption is read from the file
\* again, and when it cannot be read any more that exception ends the program.
CheckFile ==
    /\ step = "file"
    /\ \/ Usable # Files /\ Continue("failed") /\ UNCHANGED names
       \/ \E file \in Usable :
             \/ Continue("crashed") /\ UNCHANGED names
             \/ /\ ParseUfifToOtpEncryption(file).otp # ExpectedEncryption(meta.serial)
                /\ Continue("failed") /\ UNCHANGED names
             \/ /\ ParseUfifToOtpEncryption(file).otp = ExpectedEncryption(meta.serial)
                /\ step' = "policy" /\ names' = DOMAIN file.entries
                /\ meta' = [meta EXCEPT !.serial = Unknown]  \* not looked at any more
                /\ UNCHANGED <<args, policy, waited>>
    /\ UNCHANGED <<unseen, vars>>

\* The minor versions are not compared.
UpdatePolicy(file, device) ==
    IF file <= CriticalMajor THEN "CONTINOUS"
    ELSE IF device >= CriticalMajor THEN "OPFW_FIRST" ELSE "REQUIRE_INTERMEDIATE_FW"

\* The device's version, asked for again, this time with a look at Connect's result; an
\* exception (no connection, no version, one not of the form) is NOT_ALLOWED.
DeviceVersions ==
    UNION {{ModuleVersion(q.lines, "OPFW") : q \in QueryFirmwareVersion("Ok", text)}
           : text \in VersionTexts}

DecideUpdatePolicy ==
    {"NOT_ALLOWED"}
        \cup {UpdatePolicy(file, device[1]) : file \in Majors, device \in DeviceVersions \ {Unknown}}

ApplyPolicy ==
    /\ step = "policy"
    /\ \/ /\ policy' \in DecideUpdatePolicy \cap {"CONTINOUS", "OPFW_FIRST"}
          /\ step' = "approve" /\ UNCHANGED <<args, meta, waited>>
       \/ DecideUpdatePolicy \ {"CONTINOUS", "OPFW_FIRST"} # {} /\ Continue("failed")
    /\ UNCHANGED <<names, unseen, vars>>

\* UpdateModules, with the settings of this run of the tool.
UpdateModules(l) == Begin(l) /\ force' = args.forceFull

\* What is not looked at any more while it burns.
Forget ==
    /\ meta' = NoMetadata /\ args' = [NoArguments EXCEPT !.forceFull = args.forceFull]

\* The user does not agree, or the version is not compatible with the host and not forced.
Refuse ==
    /\ step = "approve"
    /\ Continue("failed")
    /\ UNCHANGED <<names, unseen, vars>>

\* The recognition module is updated when its version is the file's, or the user agrees to lose
\* the database.
UpdateRecognition == IF meta.recog = <<1>> \/ args.autoApprove THEN {TRUE} ELSE BOOLEAN

\* (Variant: the refusal of the recognition module is asked for and not used.)
ApproveAll ==
    /\ step = "approve" /\ step' = "burning"
    /\ \E updateRecognition \in UpdateRecognition :
          names' = IF updateRecognition THEN names ELSE names \ {RECOG}
    /\ UpdateModules(IF policy = "CONTINOUS" THEN Modules ELSE {OPFW})
    /\ Forget
    /\ UNCHANGED <<policy, waited, unseen>>

Approve ==
    /\ step = "approve" /\ step' = "burning"
    /\ \E updateRecognition \in UpdateRecognition :
          names' = IF updateRecognition THEN names ELSE names \ {RECOG}
    /\ UpdateModules(IF policy = "CONTINOUS" THEN names' ELSE {OPFW})
    /\ Forget
    /\ UNCHANGED <<policy, waited, unseen>>

-----------------------------------------------------------------------------
(* The burning, and what follows the first. *)

\* UpdateModules has returned, and its engine is gone.
Returned ==
    /\ pc = "idle" /\ pc' = "idle" /\ list' = {} /\ m' = 1 /\ force' = FALSE /\ state' = "active"
    /\ info' = NoInfo /\ cursor' = 1 /\ upd' = {} /\ again' = FALSE /\ ret' = "None"
    /\ faulty' = FALSE
    /\ UNCHANGED <<dev, session>>

\* (Variant: the result of the first burning is not looked at.)
BurntUnlooked ==
    /\ step = "burning" /\ Returned
    /\ Continue(IF policy # "CONTINOUS" THEN "redetect" ELSE IF ret = "Ok" THEN "success" ELSE "failed")
    /\ UNCHANGED <<names, unseen>>

Burnt ==
    /\ step = "burning" /\ Returned
    /\ Continue(IF ret # "Ok" THEN "failed" ELSE IF policy = "CONTINOUS" THEN "success" ELSE "redetect")
    /\ UNCHANGED <<names, unseen>>

\* RedetectDevice: one round of its loop.  A device that is searched for is queried first.
Redetect ==
    /\ step = "redetect" /\ waited < MaxWait
    /\ \/ /\ IsDeviceAlive
          /\ step' = "rest" /\ UpdateModules(names \ {OPFW}) /\ waited' = MinWait
          /\ UNCHANGED <<args, meta, policy>>
       \/ waited' = waited + 1 /\ UNCHANGED <<step, args, meta, policy, vars>>
       \/ AutoDetect /\ MetadataCrash /\ Continue("crashed") /\ UNCHANGED vars
    /\ UNCHANGED <<names, unseen>>

\* The device is not back: the rest is not burnt, and success is still that of OPFW.
GiveUp ==
    /\ step = "redetect" /\ waited = MaxWait
    /\ Continue("success") /\ unseen' = TRUE
    /\ UNCHANGED <<names, vars>>

RestBurnt ==
    /\ step = "rest" /\ Returned
    /\ Continue(IF ret = "Ok" THEN "success" ELSE "failed")
    /\ UNCHANGED <<names, unseen>>

Tool ==
    \/ CheckFile \/ ApplyPolicy \/ Refuse \/ Approve
    \/ Burnt \/ Redetect \/ GiveUp \/ RestBurnt

ToolNext ==
    \/ Start \/ Tool
    \/ (Host \/ Interrupt \/ Restart) /\ UNCHANGED toolVars
    \/ step \in Over \cup {"redetect"} /\ OtherUpdate /\ UNCHANGED toolVars

ToolSpec == ToolInit /\ [][ToolNext]_allVars

-----------------------------------------------------------------------------
\* The type invariant.
ToolTypeOK ==
    /\ TypeOK
    /\ step \in Over \cup {"file", "policy", "approve", "burning", "redetect", "rest"}
    /\ args \in Arguments /\ meta \in Metadata /\ policy \in Policies /\ names \subseteq Modules
    /\ waited \in MinWait..MaxWait /\ unseen \in BOOLEAN
    /\ pc # "idle" => step \in {"burning", "rest"}

\* A tool that reports success has stored every block of every module the user agreed to, also
\* with two burnings and whatever happened between them and in them; when the device stayed away
\* after the first (the code reports success then), those of OPFW.
SuccessIsStored ==
    step = "success" => \A k \in (IF unseen THEN {OPFW} ELSE names) : Stored(dev[k])

\* With OPFW_FIRST no other module is written before every block of the file's OPFW is stored.
OpfwIsFirst ==
    policy = "OPFW_FIRST" /\ pc = "block" /\ m # OPFW => Stored(dev[OPFW])

\* The recognition module, and with it the database, is left alone when the user refused it.
RefusedIsKept ==
    [][pc # "idle" /\ RECOG \notin names => dev'[RECOG] \in {dev[RECOG], Rebooted(dev[RECOG])}]_allVars

=============================================================================
