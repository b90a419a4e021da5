------------------------------ MODULE FwUpdate ------------------------------
(***************************************************************************)
(* Burning firmware modules: FwUpdateEngine.cc (BurnModules, BurnModule,    *)
(* GetBlockUpdateList) over the text commands of Cmds.cc and the waits of    *)
(* FwUpdaterComm.cc, with the boot loader of the device (external).          *)
(*                                                                         *)
(* The device keeps what an interrupted update left: a later attempt, of     *)
(* this or of another file, sends only the blocks whose checksums differ.    *)
(* A block is known by what it holds: "new" is the file's, all else differs. *)
(***************************************************************************)
EXTENDS Integers, Sequences

CONSTANTS
    NModules,   \* modules in the file
    Blocks,     \* blocks of each module in the file
    OldModules  \* what the blocks of a module on the device may hold at first

ASSUME UpdateAssumption ==
    /\ NModules \in Nat \ {0} /\ Blocks \in Nat \ {0}
    /\ \A a \in OldModules : a \in Seq({"new", "old"}) /\ a # <<>>

VARIABLES
    pc,      \* where the updating thread is
    list,    \* the modules of the file that are to be burnt, in the file's order
    m,       \* the module being burnt
    force,   \* force_full
    state,   \* version_info.state
    info,    \* the dlinfo response: [empty, recs]
    cursor,  \* cur_input: the next record of it
    upd,     \* block_update_list: the blocks to send
    again,   \* this dlinfo checks what was burnt
    ret,     \* what UpdateModules returned
    dev,     \* device: for each module its state, its active blocks, the blocks being updated
    session, \* device: an update session is open
    faulty   \* history: something outside the host went wrong in this attempt

hostVars == <<pc, list, m, force, state, info, cursor, upd, again, ret>>
vars == <<hostVars, dev, session, faulty>>

Modules == 1..NModules
AllBlocks == 0..(Blocks - 1)
AllNew == [b \in 1..Blocks |-> "new"]
Contents == {"new", "old", "none"}

Record == [no : Nat, ok : BOOLEAN, formed : BOOLEAN]
NoInfo == [empty |-> FALSE, recs |-> <<>>]

Init ==
    /\ pc = "idle" /\ list = {} /\ m = 1 /\ force = FALSE /\ state = "active" /\ info = NoInfo /\ cursor = 1
    /\ upd = {} /\ again = FALSE /\ ret = "None"
    /\ dev \in [Modules -> [state : {"empty"}, active : {<<>>}, scrap : {<<>>}]
                         \cup [state : {"active"}, active : OldModules, scrap : {<<>>}]]
    /\ session = FALSE /\ faulty = FALSE

-----------------------------------------------------------------------------
(* Exceptions, and the outcome of a wait for the device's answer. *)

\* An exception leaves BurnModules: the connection is closed, UpdateModules returns Error.
Throw == pc' = "idle" /\ ret' = "Error"

\* The answer arrives, or it does not within the timeout and WaitForStr throws.
Answered(next) ==
    \/ pc' = next /\ UNCHANGED <<ret, faulty>>
    \/ Throw /\ faulty' = TRUE

-----------------------------------------------------------------------------
(* BurnModules. *)

First(l) == CHOOSE k \in l : \A i \in l : k <= i

\* UpdateModules, with those modules of the file that were asked for: the port is opened, dlspd
\* and dlver are acknowledged.  Of no modules at all the burning is a success at once.
Begin(l) ==
    /\ pc = "idle"
    /\ list' = l /\ force' \in BOOLEAN /\ faulty' = FALSE
    /\ again' = FALSE /\ info' = NoInfo /\ cursor' = 1 /\ upd' = {}
    /\ IF l = {} THEN pc' = "idle" /\ ret' = "Ok" /\ UNCHANGED m
                 ELSE pc' = "ver" /\ ret' = "None" /\ m' = First(l)
    /\ UNCHANGED <<state, dev, session>>

\* dlver: the state of the module.
AskVersion ==
    /\ pc = "ver"
    /\ state' = dev[m].state
    /\ Answered("info")
    /\ UNCHANGED <<m, force, info, cursor, upd, again, dev, session>>

-----------------------------------------------------------------------------
(* dlinfo and GetBlockUpdateList. *)

Records(blocks) ==
    [b \in 1..Len(blocks) |-> [no |-> b - 1, ok |-> blocks[b] = "new", formed |-> TRUE]]

\* The device lists the SCRAP section, when there is one, behind the module's own.
Response(k) ==
    [empty |-> dev[k].state = "empty",
     recs |-> Records(IF dev[k].scrap # <<>> THEN dev[k].scrap ELSE dev[k].active)]

\* The text as it was when WaitForStr ran out of time between its two looks at the timer and
\* returned: without its end, or without the SCRAP section.
Prefixes(recs) == {SubSeq(recs, 1, n) : n \in 0..Len(recs)}

Truncated(k) ==
    [empty : {dev[k].state = "empty"},
     recs : Prefixes(Response(k).recs) \cup Prefixes(Records(dev[k].active))]

\* A line with damaged characters.
Garbled(r) == {[r EXCEPT !.recs[i].formed = FALSE] : i \in 1..Len(r.recs)}

\* dlinfo, WaitForStr("dlinfo end").
AskInfo ==
    /\ pc = "info"
    /\ \/ info' = Response(m) /\ pc' = "parse" /\ UNCHANGED <<ret, faulty>>
       \/ /\ info' \in Truncated(m) \cup Garbled(Response(m))
          /\ faulty' = TRUE /\ pc' = "parse" /\ UNCHANGED ret
       \/ Throw /\ faulty' = TRUE /\ UNCHANGED info
    /\ cursor' = 1 /\ upd' = AllBlocks
    /\ UNCHANGED <<m, force, state, again, dev, session>>

AfterParse == IF again THEN "verify" ELSE "decide"

\* ConsumeScanned: the text is done with.
Consumed == info' = NoInfo /\ cursor' = 1

\* (Variant for the mutant runs: the number of the block is not compared with the file's.)
ParseRecordUnchecked ==
    /\ pc = "parse" /\ cursor <= Len(info.recs) /\ ~info.empty /\ info.recs[cursor].formed
    /\ upd' = IF info.recs[cursor].ok THEN upd \ {info.recs[cursor].no}
              ELSE upd \cup {info.recs[cursor].no}
    /\ cursor' = cursor + 1
    /\ UNCHANGED <<pc, m, force, state, info, again, ret, dev, session, faulty>>

\* One round of the loop over the records.  A line not of the form is tried again, for ever:
\* continue leaves cur_input where it is.
ParseRecord ==
    /\ pc = "parse" /\ cursor <= Len(info.recs)
    /\ ~info.empty /\ ~(force /\ ~again)
    /\ LET r == info.recs[cursor] IN
       IF ~r.formed THEN UNCHANGED <<pc, upd, cursor, info>>
       ELSE IF r.no \notin AllBlocks
       THEN upd' = AllBlocks /\ pc' = AfterParse /\ Consumed
       ELSE /\ upd' = IF r.ok THEN upd \ {r.no} ELSE upd \cup {r.no}
            /\ cursor' = cursor + 1 /\ UNCHANGED <<pc, info>>
    /\ UNCHANGED <<m, force, state, again, ret, dev, session, faulty>>

\* No more records, or none looked at: force_full, or "empty" in the text.
ParseEnd ==
    /\ pc = "parse"
    /\ cursor > Len(info.recs) \/ info.empty \/ (force /\ ~again)
    /\ pc' = AfterParse /\ Consumed
    /\ UNCHANGED <<m, force, state, upd, again, ret, dev, session, faulty>>

-----------------------------------------------------------------------------
(* BurnModule after the response. *)

IsLast == \A k \in list : k <= m
NextModule == First({k \in list : k > m})

\* (Variant: any module that is not empty is updated in part.)
DecideInPart ==
    /\ pc = "decide"
    /\ pc' = IF upd = {} /\ state = "active" THEN "skip" ELSE "init"
    /\ UNCHANGED <<m, force, state, info, cursor, upd, again, ret, dev, session, faulty>>

\* (Variant: no module is skipped.)
DecideAlways ==
    /\ pc = "decide" /\ pc' = "init"
    /\ upd' = IF state # "active-updating" THEN AllBlocks ELSE upd
    /\ UNCHANGED <<m, force, state, info, cursor, again, ret, dev, session, faulty>>

\* An active module with nothing to update is skipped; only one that is mid-update is updated
\* in part.
Decide ==
    /\ pc = "decide"
    /\ pc' = IF upd = {} /\ state = "active" THEN "skip" ELSE "init"
    /\ upd' = IF state # "active-updating" /\ pc' = "init" THEN AllBlocks ELSE upd
    /\ UNCHANGED <<m, force, state, info, cursor, again, ret, dev, session, faulty>>

\* dlact validates the module; at the restart every validated module becomes active.
Validated(d) == IF d.scrap = AllNew THEN [state |-> "pending", active |-> d.active, scrap |-> d.scrap]
                ELSE d
Rebooted(d) == IF d.state = "pending" THEN [state |-> "active", active |-> d.scrap, scrap |-> <<>>] ELSE d

\* "dlact session reboot" of the last module, sent when the reader thread is already stopped: of
\* what becomes of it the host learns nothing and is done.  It is carried out, or the module is
\* validated and the device does not restart, or the command is lost or refused.
Finish(validated) ==
    /\ pc' = "idle" /\ ret' = "Ok"
    /\ \/ dev' = [k \in Modules |-> Rebooted(validated[k])] /\ session' = FALSE
       \/ dev' \in {validated, dev} /\ UNCHANGED session

\* A skipped module has nothing to validate, but when it is the last one it restarts the device.
Skip ==
    /\ pc = "skip"
    /\ IF IsLast
       THEN Finish(dev) /\ UNCHANGED m
       ELSE m' = NextModule /\ pc' = "ver" /\ UNCHANGED <<dev, session, ret>>
    /\ UNCHANGED <<force, state, info, cursor, upd, again, faulty>>

\* dlinit, with "session" for the first module only, and the checksums of the file's blocks: the
\* device keeps the blocks of an interrupted update that have them.
InitModule ==
    /\ pc = "init"
    /\ session' = (session \/ m = First(list))
    /\ dev' = [dev EXCEPT ![m].scrap =
                  IF dev[m].state = "active-updating"
                  THEN [b \in 1..Blocks |-> IF b <= Len(@) /\ @[b] = "new" THEN "new" ELSE "none"]
                  ELSE [b \in 1..Blocks |-> "none"],
               ![m].state = "active-updating"]
    /\ Answered("block")
    /\ UNCHANGED <<m, force, state, info, cursor, upd, again>>

\* dl, its ack, the block, "dl ret=0": the device may still have stored it wrong.
SendBlock ==
    /\ pc = "block" /\ upd # {}
    /\ LET b == CHOOSE x \in upd : \A y \in upd : x <= y IN
       /\ upd' = upd \ {b}
       /\ \/ /\ dev' = [dev EXCEPT ![m].scrap[b + 1] = "new"]
             /\ Answered("block")
          \/ /\ dev' = [dev EXCEPT ![m].scrap[b + 1] = "old"]
             /\ faulty' = TRUE
             /\ (pc' = "block" /\ UNCHANGED ret) \/ Throw
    /\ UNCHANGED <<m, force, state, info, cursor, again, session>>

\* All blocks are sent: dlinfo again.
Sent ==
    /\ pc = "block" /\ upd = {}
    /\ pc' = "info" /\ again' = TRUE
    /\ UNCHANGED <<m, force, state, info, cursor, upd, ret, dev, session, faulty>>

\* (Variant: what still differs is not looked at.)
VerifyUnlooked ==
    /\ pc = "verify" /\ again' = FALSE
    /\ pc' = "activate" /\ UNCHANGED ret
    /\ UNCHANGED <<m, force, state, info, cursor, upd, dev, session, faulty>>

\* "Update failed" when a block still differs.
Verify ==
    /\ pc = "verify" /\ again' = FALSE
    /\ IF upd # {} THEN Throw ELSE pc' = "activate" /\ UNCHANGED ret
    /\ UNCHANGED <<m, force, state, info, cursor, upd, dev, session, faulty>>

\* dlact: only the modules before the last one wait for "validation ok".
Activate ==
    /\ pc = "activate"
    /\ IF IsLast
       THEN Finish([dev EXCEPT ![m] = Validated(@)]) /\ UNCHANGED <<m, faulty>>
       ELSE /\ \/ /\ dev' = [dev EXCEPT ![m] = Validated(@)]
                  /\ IF dev'[m].state = "pending" THEN Answered("ver")
                     ELSE Throw /\ faulty' = TRUE
               \/ /\ UNCHANGED dev            \* not validated yet, and WaitForStr returns
                  /\ faulty' = TRUE /\ pc' = "ver" /\ UNCHANGED ret
            /\ m' = NextModule
            /\ UNCHANGED session
    /\ UNCHANGED <<force, state, info, cursor, upd, again>>

-----------------------------------------------------------------------------
(* Failures outside the host's steps. *)

\* A write fails, an acknowledgement stays out, the port goes away, the program is stopped.
Interrupt ==
    /\ pc # "idle" /\ Throw /\ faulty' = TRUE
    /\ UNCHANGED <<list, m, force, state, info, cursor, upd, again, dev, session>>

\* The device restarts: what was validated may become active, the rest stays as it is.
Restart ==
    /\ \/ dev' = [k \in Modules |-> Rebooted(dev[k])]
       \/ UNCHANGED dev
    /\ session' = FALSE /\ faulty' = TRUE
    /\ UNCHANGED hostVars

\* Another program begins to update a module with another file, and is broken off.
OtherUpdate ==
    /\ pc = "idle"
    /\ \E k \in Modules :
        /\ dev[k].state = "active"
        /\ \E s \in [1..Blocks -> {"old", "new"}] :
            dev' = [dev EXCEPT ![k].state = "active-updating", ![k].scrap = s]
    /\ UNCHANGED <<hostVars, session, faulty>>

Host ==
    /\ UNCHANGED list
    /\ \/ AskVersion \/ AskInfo \/ ParseRecord \/ ParseEnd \/ Decide \/ Skip \/ InitModule
       \/ SendBlock \/ Sent \/ Verify \/ Activate

Next == (\E l \in SUBSET Modules : Begin(l)) \/ Host \/ Interrupt \/ Restart \/ OtherUpdate

\* The updating thread runs: every wait has a timeout.
Spec == Init /\ [][Next]_vars /\ WF_vars(Host)

-----------------------------------------------------------------------------
\* The type invariant.
TypeOK ==
    /\ pc \in {"idle", "ver", "info", "parse", "decide", "skip", "init", "block", "verify", "activate"}
    /\ list \subseteq Modules /\ m \in Modules /\ force \in BOOLEAN
    /\ state \in {"empty", "active", "active-updating", "pending"}
    /\ info \in [empty : BOOLEAN, recs : Seq(Record)] /\ cursor \in Nat \ {0}
    /\ upd \subseteq AllBlocks /\ again \in BOOLEAN /\ ret \in {"None", "Ok", "Error"}
    /\ \A k \in Modules : /\ dev[k].state \in {"empty", "active", "active-updating", "pending"}
                          /\ dev[k].active \in Seq(Contents) /\ dev[k].scrap \in Seq(Contents)
    /\ session \in BOOLEAN /\ faulty \in BOOLEAN

\* Every block of the file is on the device: as the module's update, or in its active blocks, where
\* those of an earlier, longer module may follow.
Stored(d) ==
    \/ d.scrap = AllNew
    \/ Len(d.active) >= Blocks /\ \A b \in 1..Blocks : d.active[b] = "new"

\* When UpdateModules returns Ok the device stores the file's blocks of every module it was asked
\* for, whatever an interrupted update left, however a block was stored wrong on the way and
\* however an answer was cut short.  That they are active is not known: see Finish.
StoredWhenOk ==
    [][pc # "idle" /\ pc' = "idle" /\ ret' = "Ok" => \A k \in list : Stored(dev'[k])]_vars

\* An attempt in which nothing went wrong outside the host succeeds: what an earlier attempt left
\* on the device never makes it fail.
CleanAttemptSucceeds == pc = "idle" /\ ret = "Error" => faulty

\* An active module that is current is not burnt again, unless forced or misinformed.
NoNeedlessBurn ==
    pc = "init" /\ ~faulty =>
        force \/ dev[m].state # "active" \/ dev[m].active # AllNew

\* GetBlockUpdateList's comment: lines without the form are ignored.  An attempt that is not
\* interrupted comes to its end.
AttemptEnds == pc # "idle" ~> pc = "idle"

=============================================================================
