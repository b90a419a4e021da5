---------------------------- MODULE FwToolProofs ----------------------------
(***************************************************************************)
(* Proofs about burning and about the tool that asks for it.                *)
(*                                                                         *)
(* Burning, for any modules, any number of blocks and any contents of the   *)
(* device: an attempt that reports Ok has stored what was asked for, one in *)
(* which nothing fails succeeds, and a module that is current is not burnt. *)
(*                                                                         *)
(* The tool, for any file, device and waiting time: the invariant of        *)
(* burning holds under it; a tool that reports success has stored what the  *)
(* user agreed to; the operational firmware comes first; a module that      *)
(* the user refused is left alone; and the table of blocks that it burns    *)
(* covers a module's bytes exactly.                                         *)
(***************************************************************************)
EXTENDS FwTool, TLAPS, WellFoundedInduction

States == {"empty", "active", "active-updating", "pending"}
Places == {"idle", "ver", "info", "parse", "decide", "skip", "init", "block", "verify", "activate"}

\* The blocks that the report of a module lists.
Shown(d) == IF d.scrap # <<>> THEN d.scrap ELSE d.active

\* The blocks of the file that these are not.
Differ(d) == {b \in AllBlocks : ~(b + 1 <= Len(Shown(d)) /\ Shown(d)[b + 1] = "new")}

-----------------------------------------------------------------------------
(* The inductive invariant.                                                 *)

HostKnown ==
    /\ pc \in Places
    /\ list \subseteq Modules
    /\ m \in Modules
    /\ pc # "idle" => m \in list
    /\ upd \subseteq AllBlocks
    /\ cursor \in Nat \ {0}
    /\ force \in BOOLEAN /\ again \in BOOLEAN /\ faulty \in BOOLEAN

\* What the device keeps of a module goes with the state it reports.
ModuleKnown(d) ==
    /\ d \in [state : States, active : Seq(Contents), scrap : Seq(Contents)]
    /\ d.state \in {"empty", "active"} => d.scrap = <<>>
    /\ d.state = "empty" => d.active = <<>>
    /\ d.state = "active-updating" => d.scrap \in [1..Blocks -> Contents]
    /\ d.state = "pending" => d.scrap = AllNew

DeviceKnown ==
    /\ DOMAIN dev = Modules
    /\ \A k \in Modules : ModuleKnown(dev[k])

\* The second look at a module is at one that is being updated; before the first, nothing was sent.
PhaseKnown ==
    /\ pc \in {"ver", "decide", "skip", "init", "block", "activate"} => ~again
    /\ pc \in {"info", "parse", "verify"} /\ again => dev[m].state = "active-updating"
    /\ pc \in {"block", "activate"} => dev[m].state = "active-updating"
    /\ pc \in {"info", "parse", "decide", "skip", "init"} /\ ~again =>
         /\ state = "active" => dev[m].state = "active"
         /\ (state = "active-updating") <=> (dev[m].state = "active-updating")
         /\ ~faulty => dev[m].state = state
    /\ pc = "skip" => state = "active"
    /\ pc = "verify" => again

\* The part of the report that was read: a block is to be sent unless its record said otherwise.
ParseKnown ==
    pc = "parse" /\ ~faulty =>
        /\ info.empty => Shown(dev[m]) = <<>>
        /\ info.empty \/ (force /\ ~again) => upd = AllBlocks
        /\ Len(info.recs) = Len(Shown(dev[m]))
        /\ \A i \in 1..Len(info.recs) :
             info.recs[i].no = i - 1 /\ (info.recs[i].ok <=> Shown(dev[m])[i] = "new")
        /\ cursor <= Len(info.recs) + 1 /\ cursor <= Blocks + 1
        /\ \A b \in AllBlocks : b \in upd <=> (b + 1 >= cursor \/ Shown(dev[m])[b + 1] # "new")

\* The report was read: what differs is to be sent, and nothing when all is as in the file.
ReportKnown ==
    pc \in {"decide", "verify"} /\ ~faulty =>
        /\ Differ(dev[m]) \subseteq upd
        /\ upd = {} => Shown(dev[m]) = AllNew
        /\ (again \/ ~force) /\ Shown(dev[m]) = AllNew => upd = {}

\* What is decided follows from it.
DecisionKnown ==
    pc = "init" /\ ~faulty =>
         /\ Differ(dev[m]) \subseteq upd
         /\ state # "active-updating" => upd = AllBlocks
         /\ ~force /\ state = "active" => Shown(dev[m]) # AllNew

\* Every block that is not to be sent any more is there; so, after the last, they all are.
SentKnown ==
    /\ pc = "block" /\ ~faulty => \A b \in AllBlocks \ upd : dev[m].scrap[b + 1] = "new"
    /\ pc \in {"info", "parse", "verify"} /\ again /\ ~faulty => dev[m].scrap = AllNew

\* The records are of these blocks, or of the first of them.
ReportOf(recs, s) ==
    /\ Len(recs) \in Nat /\ Len(recs) <= Len(s)
    /\ \A i \in 1..Len(recs) : recs[i].no = i - 1 /\ (recs[i].ok => s[i] = "new")

\* Whatever report was read, cut short or damaged: it was one of the module's blocks, and those
\* that are not to be sent are among them.
Read(s) ==
    /\ ReportOf(info.recs, s)
    /\ \A b \in AllBlocks \ upd : b + 1 <= Len(s) /\ s[b + 1] = "new"

\* Whatever went wrong: a module that is taken for done, as the ones before this one are, has the
\* file's blocks.
StoredKnown ==
    /\ pc = "parse" => Read(dev[m].scrap) \/ Read(dev[m].active) \/ Stored(dev[m])
    /\ pc \in {"decide", "verify"} /\ upd = {} => Stored(dev[m])
    /\ pc \in {"skip", "activate"} => Stored(dev[m])

DoneKnown == pc # "idle" => \A k \in list : k < m => Stored(dev[k])

ErrorKnown == pc = "idle" /\ ret = "Error" => faulty

UpdateInv ==
    /\ HostKnown
    /\ DeviceKnown
    /\ PhaseKnown
    /\ ParseKnown
    /\ ReportKnown
    /\ DecisionKnown
    /\ SentKnown
    /\ StoredKnown
    /\ DoneKnown
    /\ ErrorKnown

-----------------------------------------------------------------------------
(* The facts that the steps share.                                          *)

LEMMA BlocksFacts ==
    /\ Blocks \in Nat /\ Blocks >= 1 /\ AllBlocks # {} /\ AllBlocks \subseteq Nat /\ Modules \subseteq Nat
    /\ \A b \in AllBlocks : b + 1 \in 1..Blocks
    /\ \A i \in 1..Blocks : i - 1 \in AllBlocks /\ (i - 1) + 1 = i
<1>1. Blocks \in Nat /\ Blocks >= 1 /\ NModules \in Nat
  BY UpdateAssumption
<1>2. Modules \subseteq Nat
  BY <1>1 DEF Modules
<1>3. AllBlocks \subseteq Nat /\ 0 \in AllBlocks
  BY <1>1 DEF AllBlocks
<1>4. ASSUME NEW b \in AllBlocks PROVE b + 1 \in 1..Blocks
  BY <1>1 DEF AllBlocks
<1>5. ASSUME NEW i \in 1..Blocks PROVE i - 1 \in AllBlocks /\ (i - 1) + 1 = i
  BY <1>1 DEF AllBlocks
<1> QED
  BY <1>1, <1>2, <1>3, <1>4, <1>5

LEMMA NewFacts ==
    /\ AllNew \in [1..Blocks -> Contents] /\ AllNew \in Seq(Contents)
    /\ Len(AllNew) = Blocks /\ AllNew # <<>> /\ \A i \in 1..Blocks : AllNew[i] = "new"
<1>1. AllNew \in [1..Blocks -> Contents] /\ \A i \in 1..Blocks : AllNew[i] = "new"
  BY DEF AllNew, Contents
<1>2. AllNew \in Seq(Contents) /\ Len(AllNew) = Blocks
  BY <1>1, BlocksFacts
<1> QED
  BY <1>1, <1>2, BlocksFacts

\* A set of numbers has a least one.
LEMMA LeastExists ==
    ASSUME NEW S, S \subseteq Nat, S # {}
    PROVE  \E x \in S : \A y \in S : x <= y
<1> DEFINE Below == {ss \in Nat \X Nat : ss[1] < ss[2]}
<1>1. IsWellFoundedOn(Below, Nat)
  <2>1. OpToRel(<, Nat) = Below
    BY DEF OpToRel
  <2> QED
    BY <2>1, NatLessThanWellFounded
<1> HIDE DEF Below
<1>2. PICK x \in S : \A y \in S : ~(<<y, x>> \in Below)
  BY <1>1, WFMin
<1>3. \A y \in S : x <= y
  <2> SUFFICES ASSUME NEW y \in S, y < x PROVE FALSE
    OBVIOUS
  <2>1. <<y, x>> \in Nat \X Nat /\ <<y, x>>[1] = y /\ <<y, x>>[2] = x
    OBVIOUS
  <2>2. <<y, x>> \in Below
    BY <2>1 DEF Below
  <2> QED
    BY <1>2, <2>2
<1> QED
  BY <1>3

LEMMA FirstIs ==
    ASSUME NEW l, l \subseteq Modules, l # {}
    PROVE  First(l) \in l /\ \A i \in l : ~(i < First(l))
<1>1. \E x \in l : \A y \in l : x <= y
  BY BlocksFacts, LeastExists
<1>2. First(l) \in l /\ \A i \in l : First(l) <= i
  BY <1>1 DEF First
<1> DEFINE f == First(l)
<1>3. f \in l /\ \A i \in l : f <= i
  BY <1>2
<1> HIDE DEF f
<1>4. \A i \in l : ~(i < f)
  BY <1>3, BlocksFacts
<1> QED
  BY <1>3, <1>4 DEF f

\* The module after this one: those before it are this one or come before it.
LEMMA NextIs ==
    ASSUME HostKnown, pc # "idle", ~IsLast
    PROVE  /\ NextModule \in list /\ NextModule \in Modules
           /\ \A k \in list : k < NextModule => k < m \/ k = m
<1> DEFINE l == {k \in list : k > m}
<1>0. l \subseteq Modules /\ m \in Nat /\ list \subseteq Nat
  BY BlocksFacts DEF HostKnown
<1>1. l # {}
  <2>1. PICK k \in list : ~(k <= m)
    BY DEF IsLast
  <2>2. k \in l
    BY <1>0, <2>1
  <2> QED
    BY <2>2
<1>2. First(l) \in l /\ \A i \in l : ~(i < First(l))
  BY <1>0, <1>1, FirstIs
<1>3. NextModule = First(l)
  BY DEF NextModule
<1>4. ASSUME NEW k \in list, k < First(l) PROVE k < m \/ k = m
  <2>1. ~(k > m)
    BY <1>2, <1>4
  <2> QED
    BY <1>0, <2>1
<1> QED
  BY <1>0, <1>2, <1>3, <1>4 DEF HostKnown

\* What is known of a module, as its parts.
LEMMA ModuleParts ==
    ASSUME NEW d, ModuleKnown(d)
    PROVE  /\ d.state \in States /\ d.active \in Seq(Contents) /\ d.scrap \in Seq(Contents)
           /\ Shown(d) \in Seq(Contents) /\ Len(Shown(d)) \in Nat
           /\ d.state = "active-updating" => d.scrap # <<>> /\ Shown(d) = d.scrap
           /\ d.state = "active" => Shown(d) = d.active
           /\ d.state = "empty" => Shown(d) = <<>>
<1>1. d.state \in States /\ d.active \in Seq(Contents) /\ d.scrap \in Seq(Contents)
  BY DEF ModuleKnown
<1>2. ASSUME d.state = "active-updating" PROVE d.scrap # <<>>
  <2>1. DOMAIN d.scrap = 1..Blocks
    BY <1>2 DEF ModuleKnown
  <2>2. 1 \in DOMAIN d.scrap
    BY <2>1, BlocksFacts
  <2> QED
    BY <2>2
<1>3. Shown(d) \in Seq(Contents)
  BY <1>1 DEF Shown
<1>4. Len(Shown(d)) \in Nat
  BY <1>3
<1>5. d.state \in {"empty", "active"} => Shown(d) = d.active
  BY DEF Shown, ModuleKnown
<1>6. d.state = "empty" => d.active = <<>>
  BY DEF ModuleKnown
<1>7. d.state = "active-updating" => Shown(d) = d.scrap
  BY <1>2 DEF Shown
<1> QED
  BY <1>1, <1>2, <1>3, <1>4, <1>5, <1>6, <1>7

\* A restart makes a validated module active and leaves the others.
LEMMA RebootedIs ==
    ASSUME NEW d, ModuleKnown(d)
    PROVE  /\ ModuleKnown(Rebooted(d))
           /\ d.state # "pending" => Rebooted(d) = d
           /\ d.state = "pending" => Rebooted(d).state = "active" /\ Stored(Rebooted(d))
           /\ Stored(d) => Stored(Rebooted(d))
<1>1. CASE d.state = "pending"
  <2>1. Rebooted(d) = [state |-> "active", active |-> d.scrap, scrap |-> <<>>] /\ d.scrap = AllNew
    BY <1>1 DEF Rebooted, ModuleKnown
  <2>2. ModuleKnown(Rebooted(d)) /\ Rebooted(d).state = "active"
    BY <1>1, <2>1, NewFacts DEF ModuleKnown, States
  <2>3. Stored(Rebooted(d))
    BY <2>1, NewFacts, BlocksFacts DEF Stored
  <2> QED
    BY <1>1, <2>2, <2>3
<1>2. CASE d.state # "pending"
  BY <1>2 DEF Rebooted
<1> QED
  BY <1>1, <1>2

LEMMA ValidatedIs ==
    ASSUME NEW d, ModuleKnown(d)
    PROVE  /\ ModuleKnown(Validated(d))
           /\ Stored(d) => Stored(Validated(d))
<1>1. CASE d.scrap = AllNew
  BY <1>1, NewFacts DEF Validated, ModuleKnown, Stored, States
<1>2. CASE d.scrap # AllNew
  BY <1>2 DEF Validated
<1> QED
  BY <1>1, <1>2

\* A module has an update of as many blocks as the file, or none.
LEMMA ScrapIs ==
    ASSUME NEW d, ModuleKnown(d)
    PROVE  /\ d.scrap = <<>> \/ d.scrap \in [1..Blocks -> Contents]
           /\ (\A b \in AllBlocks : b + 1 <= Len(d.scrap) /\ d.scrap[b + 1] = "new") => d.scrap = AllNew
           /\ (\A b \in AllBlocks : b + 1 <= Len(d.active) /\ d.active[b + 1] = "new") => Stored(d)
<1>1. d.scrap = <<>> \/ d.scrap \in [1..Blocks -> Contents]
  BY NewFacts DEF ModuleKnown, States
<1>2. ASSUME \A b \in AllBlocks : b + 1 <= Len(d.scrap) /\ d.scrap[b + 1] = "new" PROVE d.scrap = AllNew
  <2>1. 0 \in AllBlocks
    BY BlocksFacts DEF AllBlocks
  <2>2. d.scrap # <<>>
    BY <1>2, <2>1
  <2>3. \A i \in 1..Blocks : d.scrap[i] = "new"
    BY <1>2, BlocksFacts
  <2> QED
    BY <1>1, <2>2, <2>3 DEF AllNew
<1>3. ASSUME \A b \in AllBlocks : b + 1 <= Len(d.active) /\ d.active[b + 1] = "new" PROVE Stored(d)
  <2>1. ASSUME NEW i \in 1..Blocks PROVE i <= Len(d.active) /\ d.active[i] = "new"
    <3>1. i - 1 \in AllBlocks /\ (i - 1) + 1 = i
      BY BlocksFacts
    <3> QED
      BY <1>3, <3>1
  <2>2. Blocks \in 1..Blocks
    BY BlocksFacts
  <2>3. Len(d.active) >= Blocks
    BY <2>1, <2>2, BlocksFacts DEF ModuleKnown
  <2> QED
    BY <2>1, <2>3 DEF Stored
<1> QED
  BY <1>1, <1>2, <1>3

\* An attempt that ends leaves nothing to know but its result.
LEMMA EndStep ==
    ASSUME HostKnown, DeviceKnown', pc' = "idle", ret' = "Error" => faulty',
           list' \subseteq Modules, m' \in Modules, upd' \subseteq AllBlocks, cursor' \in Nat \ {0},
           force' \in BOOLEAN, again' \in BOOLEAN, faulty' \in BOOLEAN
    PROVE  UpdateInv'
BY DEF UpdateInv, HostKnown, PhaseKnown, ParseKnown, ReportKnown, DecisionKnown, SentKnown, StoredKnown,
       DoneKnown, ErrorKnown, Places

\* The steps that begin, and those from outside.
LEMMA BeginStep ==
    ASSUME UpdateInv, NEW l \in SUBSET Modules, Begin(l) PROVE UpdateInv'
<1>1. /\ list' = l /\ force' \in BOOLEAN /\ ~faulty' /\ faulty' \in BOOLEAN
      /\ ~again' /\ again' \in BOOLEAN /\ cursor' = 1 /\ upd' = {} /\ dev' = dev
  BY DEF Begin
<1>2. DeviceKnown'
  BY <1>1 DEF UpdateInv, DeviceKnown
<1>3. CASE l = {}
  <2>1. pc' = "idle" /\ ret' = "Ok" /\ m' = m
    BY <1>3 DEF Begin
  <2> QED
    BY <1>1, <1>2, <2>1, EndStep DEF UpdateInv, HostKnown
<1>4. CASE l # {}
  <2>1. pc' = "ver" /\ m' = First(l)
    BY <1>4 DEF Begin
  <2>2. First(l) \in l /\ \A i \in l : ~(i < First(l))
    BY <1>4, FirstIs
  <2>3. HostKnown'
    BY <1>1, <2>1, <2>2 DEF HostKnown, Places
  <2>4. DoneKnown'
    BY <1>1, <2>1, <2>2 DEF DoneKnown
  <2> QED
    BY <1>1, <1>2, <2>1, <2>3, <2>4
       DEF UpdateInv, PhaseKnown, ParseKnown, ReportKnown, DecisionKnown, SentKnown, StoredKnown, ErrorKnown
<1> QED
  BY <1>3, <1>4

LEMMA InterruptStep == ASSUME UpdateInv, Interrupt PROVE UpdateInv'
<1>1. DeviceKnown'
  BY DEF Interrupt, UpdateInv, DeviceKnown
<1> QED
  BY <1>1, EndStep DEF Interrupt, Throw, UpdateInv, HostKnown

LEMMA OtherStep == ASSUME UpdateInv, OtherUpdate PROVE UpdateInv'
<1>1. PICK k \in Modules, s \in [1..Blocks -> {"old", "new"}] :
        dev' = [dev EXCEPT ![k].state = "active-updating", ![k].scrap = s]
  BY DEF OtherUpdate
<1>2. s \in Seq(Contents) /\ s \in [1..Blocks -> Contents]
  BY BlocksFacts DEF Contents
<1>3. ModuleKnown(dev'[k]) /\ DOMAIN dev' = Modules
  BY <1>1, <1>2 DEF UpdateInv, DeviceKnown, ModuleKnown, States
<1>4. \A i \in Modules \ {k} : dev'[i] = dev[i]
  BY <1>1 DEF UpdateInv, DeviceKnown
<1>5. DeviceKnown'
  BY <1>3, <1>4 DEF UpdateInv, DeviceKnown
<1> QED
  BY <1>5, EndStep DEF OtherUpdate, hostVars, UpdateInv, HostKnown, ErrorKnown

LEMMA RestartStep == ASSUME UpdateInv, Restart PROVE UpdateInv'
<1>1. UNCHANGED hostVars /\ faulty' = TRUE
  BY DEF Restart
<1>2. DOMAIN dev' = Modules /\ \A k \in Modules : dev'[k] = dev[k] \/ dev'[k] = Rebooted(dev[k])
  BY DEF Restart, UpdateInv, DeviceKnown
<1>3. \A k \in Modules : ModuleKnown(dev[k])
  BY DEF UpdateInv, DeviceKnown
<1>4. ASSUME NEW k \in Modules
      PROVE  /\ ModuleKnown(dev'[k]) /\ (Stored(dev[k]) => Stored(dev'[k]))
             /\ dev[k].state # "pending" => dev'[k] = dev[k]
             /\ dev[k].state = "pending" => dev'[k].state \in {"active", "pending"}
             /\ dev'[k] = dev[k] \/ Stored(dev'[k])
  BY <1>2, <1>3, RebootedIs
<1>5. m \in Modules /\ list \subseteq Modules
  BY DEF UpdateInv, HostKnown
<1>6. DeviceKnown' /\ HostKnown'
  BY <1>1, <1>2, <1>4 DEF UpdateInv, DeviceKnown, HostKnown, hostVars
<1>7. PhaseKnown'
  BY <1>1, <1>4, <1>5 DEF UpdateInv, PhaseKnown, hostVars
<1>8. ParseKnown' /\ ReportKnown' /\ DecisionKnown' /\ SentKnown'
  BY <1>1 DEF ParseKnown, ReportKnown, DecisionKnown, SentKnown
<1>9. StoredKnown'
  BY <1>1, <1>4, <1>5 DEF UpdateInv, StoredKnown, Read, hostVars
<1>10. DoneKnown' /\ ErrorKnown'
  BY <1>1, <1>4, <1>5 DEF UpdateInv, DoneKnown, ErrorKnown, hostVars
<1> QED
  BY <1>6, <1>7, <1>8, <1>9, <1>10 DEF UpdateInv

-----------------------------------------------------------------------------
(* The steps of the updating thread.                                        *)

LEMMA AskVersionStep == ASSUME UpdateInv, AskVersion, list' = list PROVE UpdateInv'
<1>1. /\ pc = "ver" /\ state' = dev[m].state /\ dev' = dev
      /\ UNCHANGED <<m, force, info, cursor, upd, again, dev>>
  BY DEF AskVersion, Answered
<1>2. DeviceKnown'
  BY <1>1 DEF UpdateInv, DeviceKnown
<1>3. CASE Throw /\ faulty'
  BY <1>1, <1>2, <1>3, EndStep DEF Throw, UpdateInv, HostKnown
<1>4. CASE pc' = "info" /\ faulty' = faulty
  <2>1. HostKnown'
    BY <1>1, <1>4 DEF UpdateInv, HostKnown, Places
  <2>2. PhaseKnown'
    BY <1>1, <1>4 DEF UpdateInv, PhaseKnown
  <2>3. SentKnown' /\ DoneKnown'
    BY <1>1, <1>4 DEF UpdateInv, SentKnown, DoneKnown, PhaseKnown
  <2> QED
    BY <1>2, <1>4, <2>1, <2>2, <2>3
       DEF UpdateInv, ParseKnown, ReportKnown, DecisionKnown, StoredKnown, ErrorKnown
<1> QED
  BY <1>3, <1>4 DEF AskVersion, Answered

\* The records of the report are those of the blocks it shows.
LEMMA ResponseIs ==
    ASSUME NEW k \in Modules, ModuleKnown(dev[k])
    PROVE  /\ Response(k).empty => Shown(dev[k]) = <<>>
           /\ Len(Response(k).recs) = Len(Shown(dev[k]))
           /\ \A i \in 1..Len(Response(k).recs) :
                Response(k).recs[i].no = i - 1 /\ (Response(k).recs[i].ok <=> Shown(dev[k])[i] = "new")
<1> DEFINE s == Shown(dev[k])
<1>1. s \in Seq(Contents) /\ (dev[k].state = "empty" => s = <<>>)
  BY ModuleParts
<1>2. Response(k).recs = Records(s) /\ Response(k).empty = (dev[k].state = "empty")
  BY DEF Response, Shown
<1> HIDE DEF s
<1>3. /\ Len(Records(s)) = Len(s)
      /\ \A i \in 1..Len(s) : Records(s)[i].no = i - 1 /\ (Records(s)[i].ok <=> s[i] = "new")
  <2>1. /\ DOMAIN Records(s) = 1..Len(s) /\ Len(Records(s)) = Len(s)
        /\ \A i \in 1..Len(s) : Records(s)[i] = [no |-> i - 1, ok |-> s[i] = "new", formed |-> TRUE]
    BY <1>1 DEF Records
  <2> HIDE DEF Records
  <2>2. ASSUME NEW i \in 1..Len(s) PROVE Records(s)[i].no = i - 1 /\ (Records(s)[i].ok = (s[i] = "new"))
    BY <2>1
  <2> QED
    BY <2>1, <2>2
<1> QED
  BY <1>1, <1>2, <1>3 DEF s

\* A damaged line keeps its number and its result.
LEMMA GarbledIs ==
    ASSUME NEW k \in Modules, NEW r \in Garbled(Response(k))
    PROVE  /\ r.empty = Response(k).empty /\ Len(r.recs) = Len(Response(k).recs)
           /\ \A i \in 1..Len(r.recs) :
                r.recs[i].no = Response(k).recs[i].no /\ r.recs[i].ok = Response(k).recs[i].ok
<1> DEFINE s == IF dev[k].scrap # <<>> THEN dev[k].scrap ELSE dev[k].active
           q == Records(s)
<1>1. PICK i \in 1..Len(q) : r = [Response(k) EXCEPT !.recs[i].formed = FALSE]
  BY DEF Garbled, Response
<1>2. /\ DOMAIN q = 1..Len(s) 
      /\ \A j \in 1..Len(s) : q[j] = [no |-> j - 1, ok |-> s[j] = "new", formed |-> TRUE]
  BY DEF Records
<1>3. Response(k) = [empty |-> dev[k].state = "empty", recs |-> q]
  BY DEF Response
<1> HIDE DEF q, s
<1>4. r.empty = Response(k).empty /\ r.recs = [q EXCEPT ![i].formed = FALSE]
  BY <1>1, <1>3
<1> QED
  BY <1>2, <1>3, <1>4

\* The records of some blocks, or of the first of them.
LEMMA PrefixIs ==
    ASSUME NEW s \in Seq(Contents), NEW n \in 0..Len(Records(s))
    PROVE  ReportOf(SubSeq(Records(s), 1, n), s)
<1>1. /\ DOMAIN Records(s) = 1..Len(s) /\ Len(Records(s)) = Len(s) /\ Len(s) \in Nat
      /\ \A i \in 1..Len(s) : Records(s)[i] = [no |-> i - 1, ok |-> s[i] = "new", formed |-> TRUE]
  BY DEF Records
<1>2. n \in Nat /\ n <= Len(s)
  BY <1>1
<1>3. \A i \in 1..n : Records(s)[i].no = i - 1 /\ Records(s)[i].ok = (s[i] = "new")
  BY <1>1, <1>2
<1> DEFINE q == Records(s)
<1>4. \A i \in 1..n : q[i].no = i - 1 /\ (q[i].ok => s[i] = "new")
  BY <1>3
<1>5. q \in Seq([no : Int, ok : BOOLEAN, formed : BOOLEAN]) /\ Len(q) = Len(s)
  BY <1>1 DEF Records
<1> HIDE DEF q
<1>6. Len(SubSeq(q, 1, n)) = n /\ \A i \in 1..n : SubSeq(q, 1, n)[i] = q[i]
  BY <1>1, <1>2, <1>5
<1> QED
  BY <1>2, <1>4, <1>6 DEF ReportOf, q

\* Whatever comes of dlinfo is about the module's update or about its active blocks.
LEMMA AnswerIs ==
    ASSUME NEW k \in Modules, ModuleKnown(dev[k]),
           NEW r, r = Response(k) \/ r \in Truncated(k) \cup Garbled(Response(k))
    PROVE  ReportOf(r.recs, dev[k].scrap) \/ ReportOf(r.recs, dev[k].active)
<1>1. /\ dev[k].scrap \in Seq(Contents) /\ dev[k].active \in Seq(Contents)
      /\ Shown(dev[k]) \in {dev[k].scrap, dev[k].active} /\ Len(Shown(dev[k])) \in Nat
  BY ModuleParts DEF Shown
<1>2. Response(k).recs = Records(Shown(dev[k]))
  BY DEF Response, Shown
<1>3. CASE r = Response(k) \/ r \in Garbled(Response(k))
  <2> DEFINE s == Shown(dev[k])
             q == r.recs
  <2>1. Len(q) = Len(s) /\ \A i \in 1..Len(q) : q[i].no = i - 1 /\ (q[i].ok <=> s[i] = "new")
    <3>1. CASE r = Response(k)
      BY <3>1, ResponseIs
    <3>2. CASE r \in Garbled(Response(k))
      BY <3>2, ResponseIs, GarbledIs
    <3> QED
      BY <1>3, <3>1, <3>2
  <2>2. Len(s) \in Nat
    BY <1>1
  <2> HIDE DEF s, q
  <2>3. ReportOf(q, s)
    BY <2>1, <2>2 DEF ReportOf
  <2>4. ReportOf(r.recs, Shown(dev[k]))
    BY <2>3 DEF q, s
  <2> QED
    BY <1>1, <2>4
<1>4. CASE r \in Truncated(k)
  <2>1. r.recs \in Prefixes(Records(Shown(dev[k]))) \/ r.recs \in Prefixes(Records(dev[k].active))
    BY <1>2, <1>4 DEF Truncated
  <2> QED
    BY <1>1, <2>1, PrefixIs DEF Prefixes
<1> QED
  BY <1>3, <1>4

LEMMA AskInfoStep == ASSUME UpdateInv, AskInfo, list' = list PROVE UpdateInv'
<1>1. /\ pc = "info" /\ cursor' = 1 /\ upd' = AllBlocks
      /\ UNCHANGED <<m, force, state, again, dev>>
  BY DEF AskInfo
<1>2. faulty' \in BOOLEAN /\ (faulty => faulty')
  BY DEF AskInfo, UpdateInv, HostKnown
<1>3. DeviceKnown' /\ m \in Modules /\ ModuleKnown(dev[m])
  BY <1>1 DEF UpdateInv, DeviceKnown, HostKnown
<1>4. CASE Throw /\ faulty' = TRUE
  BY <1>1, <1>2, <1>3, <1>4, EndStep DEF Throw, UpdateInv, HostKnown
<1>5. CASE /\ pc' = "parse" /\ (faulty' \/ info' = Response(m))
           /\ info' = Response(m) \/ info' \in Truncated(m) \cup Garbled(Response(m))
  <2>1. HostKnown'
    BY <1>1, <1>2, <1>5 DEF UpdateInv, HostKnown, Places
  <2>2. PhaseKnown'
    BY <1>1, <1>2, <1>5 DEF UpdateInv, PhaseKnown
  <2>3. SentKnown' /\ DoneKnown'
    BY <1>1, <1>2, <1>5 DEF UpdateInv, SentKnown, DoneKnown
  <2>4. ParseKnown'
    <3>1. SUFFICES ASSUME info' = Response(m) PROVE ParseKnown'
      BY <1>5 DEF ParseKnown
    <3>2. /\ info'.empty => Shown(dev[m]) = <<>>
          /\ Len(info'.recs) = Len(Shown(dev[m]))
          /\ \A i \in 1..Len(info'.recs) :
               info'.recs[i].no = i - 1 /\ (info'.recs[i].ok <=> Shown(dev[m])[i] = "new")
      BY <1>3, <3>1, ResponseIs
    <3>3. Len(Shown(dev[m])) \in Nat
      BY <1>3, ModuleParts
    <3>4. cursor' <= Len(info'.recs) + 1 /\ cursor' <= Blocks + 1 /\ \A b \in AllBlocks : b + 1 >= cursor'
      BY <1>1, <3>2, <3>3, BlocksFacts
    <3> QED
      BY <1>1, <3>2, <3>4 DEF ParseKnown
  <2>5. StoredKnown'
    <3>1. ReportOf(info'.recs, dev[m].scrap) \/ ReportOf(info'.recs, dev[m].active)
      BY <1>3, <1>5, AnswerIs
    <3>2. AllBlocks \ upd' = {}
      BY <1>1
    <3>3. Read(dev[m].scrap)' \/ Read(dev[m].active)'
      BY <1>1, <3>1, <3>2 DEF Read
    <3> QED
      BY <1>1, <1>5, <3>3 DEF StoredKnown
  <2> QED
    BY <1>3, <1>5, <2>1, <2>2, <2>3, <2>4, <2>5 DEF UpdateInv, ReportKnown, DecisionKnown, ErrorKnown
<1> QED
  BY <1>4, <1>5 DEF AskInfo

\* Blocks that are all as in the file are the file's.
LEMMA AllNewIs ==
    ASSUME NEW s \in Seq(Contents)
    PROVE  s = AllNew <=> Len(s) = Blocks /\ \A i \in 1..Blocks : s[i] = "new"
<1>1. ASSUME Len(s) = Blocks, \A i \in 1..Blocks : s[i] = "new" PROVE s = AllNew
  <2>1. s = [i \in 1..Len(s) |-> s[i]]
    OBVIOUS
  <2> QED
    BY <1>1, <2>1 DEF AllNew
<1>2. ASSUME s = AllNew PROVE Len(s) = Blocks /\ \A i \in 1..Blocks : s[i] = "new"
  BY <1>2, NewFacts
<1> QED
  BY <1>1, <1>2

\* Nothing differs just when the blocks are the file's, if there are not more of them.
LEMMA DifferIs ==
    ASSUME NEW d, ModuleKnown(d)
    PROVE  /\ Differ(d) \subseteq AllBlocks
           /\ Shown(d) = AllNew => Differ(d) = {}
           /\ Len(Shown(d)) <= Blocks /\ Differ(d) = {} => Shown(d) = AllNew
<1> DEFINE s == Shown(d)
<1>1. s \in Seq(Contents) /\ Len(s) \in Nat
  BY ModuleParts
<1>2. \A b \in AllBlocks : b \in Differ(d) <=> ~(b + 1 <= Len(s) /\ s[b + 1] = "new")
  BY DEF Differ
<1>3. Differ(d) \subseteq AllBlocks
  BY DEF Differ
<1> HIDE DEF s
<1>4. ASSUME s = AllNew PROVE Differ(d) = {}
  <2>1. \A b \in AllBlocks : b \notin Differ(d)
    BY <1>1, <1>2, <1>4, AllNewIs, BlocksFacts
  <2> QED
    BY <1>3, <2>1
<1>5. ASSUME Len(s) <= Blocks, Differ(d) = {} PROVE s = AllNew
  <2>1. ASSUME NEW i \in 1..Blocks PROVE i <= Len(s) /\ s[i] = "new"
    <3>1. i - 1 \in AllBlocks /\ (i - 1) + 1 = i
      BY BlocksFacts
    <3> QED
      BY <1>2, <1>5, <3>1
  <2>2. Len(s) = Blocks
    BY <1>1, <1>5, <2>1, BlocksFacts
  <2> QED
    BY <1>1, <2>1, <2>2, AllNewIs
<1> QED
  BY <1>3, <1>4, <1>5 DEF s

LEMMA ParseRecordStep == ASSUME UpdateInv, ParseRecord, list' = list PROVE UpdateInv'
<1> DEFINE r == info.recs[cursor]
<1>1. /\ pc = "parse" /\ cursor <= Len(info.recs) /\ ~info.empty /\ ~(force /\ ~again)
      /\ UNCHANGED <<m, force, state, again, ret, dev, faulty>>
  BY DEF ParseRecord
<1>2. /\ DeviceKnown' /\ m \in Modules /\ ModuleKnown(dev[m]) /\ cursor \in Nat \ {0}
      /\ AllBlocks \subseteq Nat /\ again \in BOOLEAN
  BY <1>1, BlocksFacts DEF UpdateInv, DeviceKnown, HostKnown
<1>3. DoneKnown' \/ pc' = "idle"
  BY <1>1 DEF UpdateInv, DoneKnown
<1>4. ASSUME ~faulty
      PROVE  /\ Len(info.recs) = Len(Shown(dev[m])) /\ Len(info.recs) \in Nat
             /\ cursor \in 1..Len(info.recs) /\ r.no = cursor - 1 /\ (r.ok <=> Shown(dev[m])[cursor] = "new")
             /\ cursor <= Blocks + 1
             /\ \A b \in AllBlocks : b \in upd <=> (b + 1 >= cursor \/ Shown(dev[m])[b + 1] # "new")
  <2>1. /\ Len(info.recs) = Len(Shown(dev[m])) /\ cursor <= Blocks + 1
        /\ \A i \in 1..Len(info.recs) :
             info.recs[i].no = i - 1 /\ (info.recs[i].ok <=> Shown(dev[m])[i] = "new")
        /\ \A b \in AllBlocks : b \in upd <=> (b + 1 >= cursor \/ Shown(dev[m])[b + 1] # "new")
    BY <1>1, <1>4 DEF UpdateInv, ParseKnown
  <2>2. Len(info.recs) \in Nat
    BY <1>2, <2>1, ModuleParts
  <2>3. cursor \in 1..Len(info.recs)
    BY <1>1, <1>2, <2>2
  <2> QED
    BY <2>1, <2>2, <2>3
<1>5. CASE UNCHANGED <<pc, upd, cursor, info>>
  <2>1. HostKnown' /\ PhaseKnown' /\ ParseKnown' /\ SentKnown' /\ StoredKnown' /\ DoneKnown'
    BY <1>1, <1>5
       DEF UpdateInv, HostKnown, PhaseKnown, ParseKnown, SentKnown, StoredKnown, Read, DoneKnown
  <2> QED
    BY <1>1, <1>2, <1>5, <2>1 DEF UpdateInv, ReportKnown, DecisionKnown, ErrorKnown
<1>6. CASE r.no \notin AllBlocks /\ upd' = AllBlocks /\ pc' = AfterParse /\ Consumed
  <2>1. pc' = (IF again THEN "verify" ELSE "decide") /\ cursor' = 1
    BY <1>6 DEF AfterParse, Consumed
  <2>2. HostKnown' /\ PhaseKnown' /\ SentKnown' /\ DoneKnown'
    BY <1>1, <1>2, <1>3, <1>6, <2>1
       DEF UpdateInv, HostKnown, PhaseKnown, SentKnown, DoneKnown, Places
  <2>3. ReportKnown'
    <3>1. SUFFICES ASSUME ~faulty PROVE ReportKnown'
      BY <1>1 DEF ReportKnown
    <3>2. Len(Shown(dev[m])) > Blocks
      <4>1. ~(cursor - 1 \in 0..(Blocks - 1))
        BY <1>4, <1>6, <3>1 DEF AllBlocks
      <4> QED
        BY <1>2, <1>4, <3>1, <4>1, BlocksFacts
    <3>3. Shown(dev[m]) # AllNew
      BY <3>2, NewFacts, BlocksFacts
    <3> QED
      BY <1>1, <1>2, <1>6, <3>3, DifferIs, BlocksFacts DEF ReportKnown, Differ
  <2>4. StoredKnown'
    BY <1>6, <2>1, BlocksFacts DEF StoredKnown
  <2> QED
    BY <1>1, <1>2, <2>1, <2>2, <2>3, <2>4 DEF UpdateInv, ParseKnown, DecisionKnown, ErrorKnown
<1>7. CASE /\ r.no \in AllBlocks
           /\ upd' = IF r.ok THEN upd \ {r.no} ELSE upd \cup {r.no}
           /\ cursor' = cursor + 1 /\ UNCHANGED <<pc, info>>
  <2>1. HostKnown' /\ PhaseKnown' /\ SentKnown' /\ DoneKnown'
    <3>1. upd' \subseteq AllBlocks /\ cursor' \in Nat \ {0}
      <4>1. upd \subseteq AllBlocks
        BY DEF UpdateInv, HostKnown
      <4>2. upd' = upd \ {r.no} \/ upd' = upd \cup {r.no}
        BY <1>7
      <4>3. cursor' \in Nat \ {0}
        BY <1>2, <1>7
      <4> HIDE DEF r
      <4> QED
        BY <1>7, <4>1, <4>2, <4>3
    <3>2. HostKnown'
      BY <1>1, <1>7, <3>1 DEF UpdateInv, HostKnown
    <3> QED
      BY <1>1, <1>7, <3>2 DEF UpdateInv, PhaseKnown, SentKnown, DoneKnown
  <2>2. ParseKnown'
    <3>1. SUFFICES ASSUME ~faulty PROVE ParseKnown'
      BY <1>1 DEF ParseKnown
    <3>2. cursor' <= Len(info'.recs) + 1 /\ cursor' <= Blocks + 1
      BY <1>2, <1>4, <1>7, <3>1, BlocksFacts DEF AllBlocks
    <3>3. ASSUME NEW b \in AllBlocks
          PROVE  b \in upd' <=> (b + 1 >= cursor' \/ Shown(dev[m])[b + 1] # "new")
      <4>1. b \in Nat /\ (b = r.no <=> b + 1 = cursor)
        BY <1>2, <1>4, <3>1
      <4>2. CASE b = r.no
        BY <1>2, <1>4, <1>7, <3>1, <4>1, <4>2
      <4>3. CASE b # r.no
        <5>1. b \in upd' <=> b \in upd
          BY <1>7, <4>3
        <5>2. b + 1 >= cursor <=> b + 1 >= cursor'
          BY <1>2, <1>7, <4>1, <4>3
        <5> QED
          BY <1>4, <3>1, <5>1, <5>2
      <4> QED
        BY <4>2, <4>3
    <3> QED
      BY <1>1, <1>4, <1>7, <3>1, <3>2, <3>3 DEF UpdateInv, ParseKnown
  <2>3. StoredKnown'
    <3>1. ASSUME NEW s \in Seq(Contents), Read(s) PROVE Read(s)'
      <4>1. /\ ReportOf(info.recs, s) /\ Len(info.recs) \in Nat
            /\ \A b \in AllBlocks \ upd : b + 1 <= Len(s) /\ s[b + 1] = "new"
        BY <3>1 DEF Read, ReportOf
      <4>2. cursor \in 1..Len(info.recs)
        BY <1>1, <1>2, <4>1
      <4>3. r.no = cursor - 1 /\ (r.ok => s[cursor] = "new") /\ Len(info.recs) <= Len(s)
        BY <4>1, <4>2 DEF ReportOf
      <4>4. ASSUME NEW b \in AllBlocks, b \notin upd' PROVE b \notin upd \/ (r.ok /\ b = r.no)
        BY <1>7, <4>4
      <4>5. ASSUME r.ok PROVE r.no + 1 <= Len(s) /\ s[r.no + 1] = "new"
        <5>1. r.no + 1 = cursor /\ cursor <= Len(s)
          BY <4>2, <4>1, <4>3, <4>5
        <5> QED
          BY <4>3, <4>5, <5>1
      <4>6. ReportOf(info'.recs, s)
        BY <1>7, <4>1
      <4> HIDE DEF r
      <4> QED
        BY <4>1, <4>4, <4>5, <4>6 DEF Read
    <3> QED
      <4>1. dev[m].scrap \in Seq(Contents) /\ dev[m].active \in Seq(Contents)
        BY <1>2, ModuleParts
      <4>2. Read(dev[m].scrap) \/ Read(dev[m].active) \/ Stored(dev[m])
        BY <1>1 DEF UpdateInv, StoredKnown
      <4>3. UNCHANGED <<dev, m, pc>>
        BY <1>1, <1>7
      <4>4. (Read(dev[m].scrap) => Read(dev[m].scrap)') /\ (Read(dev[m].active) => Read(dev[m].active)')
        BY <3>1, <4>1, <4>3 DEF Read
      <4> QED
        BY <1>1, <4>2, <4>3, <4>4 DEF StoredKnown
  <2> QED
    BY <1>1, <1>2, <1>7, <2>1, <2>2, <2>3 DEF UpdateInv, ReportKnown, DecisionKnown, ErrorKnown
<1> QED
  BY <1>5, <1>6, <1>7 DEF ParseRecord

LEMMA ParseEndStep == ASSUME UpdateInv, ParseEnd, list' = list PROVE UpdateInv'
<1>1. /\ pc = "parse" /\ cursor' = 1
      /\ pc' = (IF again THEN "verify" ELSE "decide")
      /\ UNCHANGED <<m, force, state, upd, again, ret, dev, faulty>>
  BY DEF ParseEnd, AfterParse, Consumed
<1>2. DeviceKnown' /\ m \in Modules /\ ModuleKnown(dev[m]) /\ cursor \in Nat \ {0} /\ upd \subseteq AllBlocks
  BY <1>1 DEF UpdateInv, DeviceKnown, HostKnown
<1>3. HostKnown' /\ PhaseKnown' /\ SentKnown' /\ DoneKnown'
  BY <1>1 DEF UpdateInv, HostKnown, PhaseKnown, SentKnown, DoneKnown, Places
<1>4. ReportKnown'
  <2>1. SUFFICES ASSUME ~faulty PROVE ReportKnown'
    BY <1>1 DEF ReportKnown
  <2>2. Len(Shown(dev[m])) \in Nat /\ Shown(dev[m]) \in Seq(Contents)
    BY <1>2, ModuleParts
  <2>3. CASE info.empty \/ (force /\ ~again)
    <3>1. upd = AllBlocks /\ (info.empty => Shown(dev[m]) = <<>>)
      BY <1>1, <2>1, <2>3 DEF UpdateInv, ParseKnown
    <3>2. Shown(dev[m]) = AllNew => force /\ ~again
      BY <2>3, <3>1, NewFacts
    <3> QED
      BY <1>1, <1>2, <3>1, <3>2, DifferIs, BlocksFacts DEF ReportKnown, Differ
  <2>4. CASE ~(info.empty \/ (force /\ ~again))
    <3>1. cursor > Len(info.recs)
      BY <2>4 DEF ParseEnd
    <3>2. /\ Len(info.recs) = Len(Shown(dev[m]))
          /\ cursor <= Len(info.recs) + 1 /\ cursor <= Blocks + 1
          /\ \A b \in AllBlocks : b \in upd <=> (b + 1 >= cursor \/ Shown(dev[m])[b + 1] # "new")
      BY <1>1, <2>1 DEF UpdateInv, ParseKnown
    <3>3. cursor = Len(Shown(dev[m])) + 1 /\ Len(Shown(dev[m])) <= Blocks
      BY <1>2, <2>2, <3>1, <3>2, BlocksFacts
    <3>4. \A b \in AllBlocks : b \in upd <=> b \in Differ(dev[m])
      BY <2>2, <3>2, <3>3, BlocksFacts DEF Differ
    <3>5. upd = Differ(dev[m])
      BY <1>2, <3>4, DifferIs
    <3> QED
      BY <1>1, <1>2, <3>3, <3>5, DifferIs DEF ReportKnown, Differ
  <2> QED
    BY <2>3, <2>4
<1>5. StoredKnown'
  <2>1. SUFFICES ASSUME upd = {} PROVE Stored(dev[m])
    BY <1>1 DEF StoredKnown
  <2>2. Read(dev[m].scrap) \/ Read(dev[m].active) \/ Stored(dev[m])
    BY <1>1 DEF UpdateInv, StoredKnown
  <2> QED
    BY <1>2, <2>1, <2>2, ScrapIs DEF Read, Stored
<1> QED
  BY <1>1, <1>2, <1>3, <1>4, <1>5 DEF UpdateInv, ParseKnown, DecisionKnown, ErrorKnown

LEMMA DecideStep == ASSUME UpdateInv, Decide, list' = list PROVE UpdateInv'
<1>1. /\ pc = "decide" /\ pc' \in {"skip", "init"}
      /\ pc' = "skip" <=> (upd = {} /\ state = "active")
      /\ upd' = IF state # "active-updating" /\ pc' = "init" THEN AllBlocks ELSE upd
      /\ UNCHANGED <<m, force, state, cursor, again, ret, dev, faulty>>
  BY DEF Decide
<1>2. DeviceKnown' /\ m \in Modules /\ ModuleKnown(dev[m]) /\ ~again
  BY <1>1 DEF UpdateInv, DeviceKnown, HostKnown, PhaseKnown
<1>3. HostKnown' /\ PhaseKnown' /\ SentKnown' /\ DoneKnown'
  BY <1>1, <1>2 DEF UpdateInv, HostKnown, PhaseKnown, SentKnown, DoneKnown, Places
<1>4. DecisionKnown'
  <2>1. SUFFICES ASSUME ~faulty PROVE DecisionKnown'
    BY <1>1 DEF DecisionKnown
  <2>2. /\ Differ(dev[m]) \subseteq upd
        /\ upd = {} => Shown(dev[m]) = AllNew
        /\ ~force /\ Shown(dev[m]) = AllNew => upd = {}
    BY <1>1, <2>1 DEF UpdateInv, ReportKnown
  <2>3. state = "active" => Shown(dev[m]) = dev[m].active
    BY <1>1, <1>2, ModuleParts DEF UpdateInv, PhaseKnown
  <2>4. Differ(dev[m]) \subseteq upd'
    BY <1>1, <1>2, <2>2, DifferIs
  <2> QED
    BY <1>1, <2>2, <2>3, <2>4 DEF DecisionKnown, Differ
<1>5. StoredKnown'
  BY <1>1 DEF UpdateInv, StoredKnown
<1> QED
  BY <1>1, <1>2, <1>3, <1>4, <1>5 DEF UpdateInv, ParseKnown, ReportKnown, ErrorKnown

\* What the device may make of the last dlact: no module loses the file's blocks.
LEMMA FinishStep ==
    ASSUME HostKnown, DeviceKnown,
           DOMAIN dev' = Modules,
           \A k \in Modules : dev'[k] \in {dev[k], Rebooted(dev[k]), Validated(dev[k]), Rebooted(Validated(dev[k]))}
    PROVE  DeviceKnown' /\ \A k \in Modules : Stored(dev[k]) => Stored(dev'[k])
<1>1. ASSUME NEW k \in Modules
      PROVE  ModuleKnown(dev'[k]) /\ (Stored(dev[k]) => Stored(dev'[k]))
  <2>1. ModuleKnown(dev[k])
    BY DEF DeviceKnown
  <2>2. ModuleKnown(Validated(dev[k])) /\ (Stored(dev[k]) => Stored(Validated(dev[k])))
    BY <2>1, ValidatedIs
  <2>3. /\ ModuleKnown(Rebooted(dev[k])) /\ (Stored(dev[k]) => Stored(Rebooted(dev[k])))
        /\ ModuleKnown(Rebooted(Validated(dev[k])))
        /\ Stored(Validated(dev[k])) => Stored(Rebooted(Validated(dev[k])))
    BY <2>1, <2>2, RebootedIs
  <2> QED
    BY <2>1, <2>2, <2>3
<1> QED
  BY <1>1 DEF DeviceKnown

\* The last module is done: so the attempt.
LEMMA LastStep ==
    ASSUME HostKnown, DeviceKnown, (Skip \/ Activate) /\ IsLast
    PROVE  /\ pc' = "idle" /\ ret' = "Ok" /\ UNCHANGED <<m, faulty>>
           /\ DeviceKnown' /\ \A k \in Modules : Stored(dev[k]) => Stored(dev'[k])
<1>1. pc' = "idle" /\ ret' = "Ok" /\ UNCHANGED <<m, faulty>>
  BY DEF Skip, Activate, Finish
<1>2. Finish(dev) \/ Finish([dev EXCEPT ![m] = Validated(@)])
  BY DEF Skip, Activate
<1>3. m \in Modules /\ DOMAIN dev = Modules
  BY DEF DeviceKnown, HostKnown
<1>4. /\ DOMAIN dev' = Modules
      /\ \A k \in Modules : dev'[k] \in {dev[k], Rebooted(dev[k]), Validated(dev[k]), Rebooted(Validated(dev[k]))}
  <2>1. CASE Finish(dev)
    BY <1>3, <2>1 DEF Finish
  <2>2. CASE Finish([dev EXCEPT ![m] = Validated(@)])
    BY <1>3, <2>2 DEF Finish
  <2> QED
    BY <1>2, <2>1, <2>2
<1>5. DeviceKnown' /\ \A k \in Modules : Stored(dev[k]) => Stored(dev'[k])
  BY <1>4, FinishStep
<1> QED
  BY <1>1, <1>5

LEMMA SkipStep == ASSUME UpdateInv, Skip, list' = list PROVE UpdateInv'
<1>1. pc = "skip" /\ UNCHANGED <<force, state, info, cursor, upd, again, faulty>>
  BY DEF Skip
<1>2. m \in Modules /\ list \subseteq Modules /\ HostKnown /\ DeviceKnown /\ ModuleKnown(dev[m]) /\ ~again
  BY <1>1 DEF UpdateInv, DeviceKnown, HostKnown, PhaseKnown
<1>3. CASE IsLast
  <2>1. pc' = "idle" /\ ret' = "Ok" /\ m' = m /\ DeviceKnown'
    BY <1>2, <1>3, LastStep
  <2> QED
    BY <1>1, <1>2, <2>1, EndStep DEF HostKnown
<1>4. CASE ~IsLast
  <2>1. m' = NextModule /\ pc' = "ver" /\ UNCHANGED <<dev, ret>>
    BY <1>4 DEF Skip
  <2>2. NextModule \in list /\ NextModule \in Modules /\ \A k \in list : k < NextModule => k < m \/ k = m
    BY <1>1, <1>2, <1>4, NextIs
  <2>3. HostKnown' /\ DeviceKnown' /\ PhaseKnown'
    BY <1>1, <1>2, <2>1, <2>2 DEF HostKnown, DeviceKnown, PhaseKnown, Places
  <2>4. DoneKnown'
    BY <1>1, <2>1, <2>2 DEF UpdateInv, StoredKnown, DoneKnown
  <2> QED
    BY <1>1, <2>1, <2>3, <2>4
       DEF UpdateInv, ParseKnown, ReportKnown, DecisionKnown, SentKnown, StoredKnown, ErrorKnown
<1> QED
  BY <1>3, <1>4

\* A step that changes only the module being burnt keeps what is known of the others.
LEMMA OneModule ==
    ASSUME DeviceKnown, HostKnown, NEW d, ModuleKnown(d), dev' = [dev EXCEPT ![m] = d]
    PROVE  DeviceKnown' /\ dev'[m] = d /\ \A k \in Modules : k # m => dev'[k] = dev[k]
<1>1. m \in DOMAIN dev
  BY DEF DeviceKnown, HostKnown
<1> QED
  BY <1>1 DEF DeviceKnown

LEMMA InitModuleStep == ASSUME UpdateInv, InitModule, list' = list PROVE UpdateInv'
<1> DEFINE d == dev[m]
           s == IF d.state = "active-updating"
                THEN [b \in 1..Blocks |-> IF b <= Len(d.scrap) /\ d.scrap[b] = "new" THEN "new" ELSE "none"]
                ELSE [b \in 1..Blocks |-> "none"]
           e == [d EXCEPT !.scrap = s, !.state = "active-updating"]
<1>1. /\ pc = "init" /\ UNCHANGED <<m, force, state, info, cursor, upd, again>>
  BY DEF InitModule, Answered
<1>2. /\ m \in Modules /\ m \in Nat /\ list \subseteq Modules /\ HostKnown /\ DeviceKnown /\ ModuleKnown(d)
      /\ ~again
  BY <1>1, BlocksFacts DEF UpdateInv, DeviceKnown, HostKnown, PhaseKnown
<1>3. dev' = [dev EXCEPT ![m] = e]
  <2>1. m \in DOMAIN dev
    BY <1>2 DEF DeviceKnown
  <2> QED
    BY <2>1 DEF InitModule
<1>4. s \in [1..Blocks -> Contents] /\ s \in Seq(Contents)
  <2>1. s \in [1..Blocks -> Contents]
    BY DEF Contents
  <2> HIDE DEF s
  <2> QED
    BY <2>1, BlocksFacts
<1>5. ModuleKnown(e) /\ e.state = "active-updating" /\ e.scrap = s
  <2> HIDE DEF s
  <2> QED
    BY <1>2, <1>4 DEF ModuleKnown, States
<1>6. DeviceKnown' /\ dev'[m] = e /\ \A k \in Modules : k # m => dev'[k] = dev[k]
  <2> HIDE DEF e
  <2> QED
    BY <1>2, <1>3, <1>5, OneModule
<1>7. CASE Throw /\ faulty' = TRUE
  BY <1>1, <1>2, <1>6, <1>7, EndStep DEF Throw, HostKnown
<1>8. CASE pc' = "block" /\ UNCHANGED <<ret, faulty>>
  <2>1. HostKnown'
    BY <1>1, <1>2, <1>8 DEF HostKnown, Places
  <2>2. PhaseKnown'
    <3> HIDE DEF e
    <3> QED
      BY <1>1, <1>2, <1>5, <1>6, <1>8 DEF PhaseKnown
  <2>3. SentKnown'
    <3>1. SUFFICES ASSUME ~faulty, NEW b \in AllBlocks, b \notin upd PROVE s[b + 1] = "new"
      <4> HIDE DEF e, s
      <4> QED
        BY <1>1, <1>5, <1>6, <1>8 DEF SentKnown
    <3>2. /\ Differ(d) \subseteq upd
          /\ state # "active-updating" => upd = AllBlocks
          /\ state = "active-updating" => d.state = "active-updating"
      BY <1>1, <1>2, <3>1 DEF UpdateInv, HostKnown, DecisionKnown, PhaseKnown
    <3>3. d.state = "active-updating" /\ Shown(d) = d.scrap
      BY <1>2, <3>1, <3>2, ModuleParts
    <3>4. b + 1 <= Len(d.scrap) /\ d.scrap[b + 1] = "new"
      BY <3>1, <3>2, <3>3 DEF Differ
    <3> QED
      BY <3>3, <3>4, BlocksFacts
  <2>4. DoneKnown'
    <3>1. \A k \in list : k < m => k # m
      BY <1>2, BlocksFacts
    <3> QED
      BY <1>1, <1>2, <1>6, <1>8, <3>1 DEF UpdateInv, DoneKnown
  <2> QED
    BY <1>6, <1>8, <2>1, <2>2, <2>3, <2>4 DEF UpdateInv, ParseKnown, ReportKnown, DecisionKnown, StoredKnown, ErrorKnown
<1> QED
  BY <1>7, <1>8 DEF InitModule, Answered

LEMMA SendBlockStep == ASSUME UpdateInv, SendBlock, list' = list PROVE UpdateInv'
<1> DEFINE b == CHOOSE x \in upd : \A y \in upd : x <= y
           d == dev[m]
<1>1. /\ pc = "block" /\ upd # {} /\ upd' = upd \ {b}
      /\ UNCHANGED <<m, force, state, info, cursor, again>>
      /\ \/ dev' = [dev EXCEPT ![m].scrap[b + 1] = "new"] /\ Answered("block")
         \/ /\ dev' = [dev EXCEPT ![m].scrap[b + 1] = "old"] /\ faulty' = TRUE
            /\ (pc' = "block" /\ UNCHANGED ret) \/ Throw
  BY DEF SendBlock, Answered
<1>2. /\ m \in Modules /\ m \in Nat /\ list \subseteq Modules /\ HostKnown /\ DeviceKnown /\ ModuleKnown(d)
      /\ ~again /\ d.state = "active-updating" /\ upd \subseteq AllBlocks /\ d.scrap \in [1..Blocks -> Contents]
  BY <1>1, BlocksFacts DEF UpdateInv, DeviceKnown, HostKnown, PhaseKnown, ModuleKnown
<1>3. b \in AllBlocks
  <2>1. \E x \in upd : \A y \in upd : x <= y
    BY <1>1, <1>2, BlocksFacts, LeastExists
  <2> QED
    BY <1>2, <2>1
<1> HIDE DEF b
<1>4. PICK v \in {"new", "old"} :
        /\ dev' = [dev EXCEPT ![m].scrap[b + 1] = v]
        /\ \/ v = "new" /\ Answered("block")
           \/ faulty' = TRUE /\ ((pc' = "block" /\ UNCHANGED ret) \/ Throw)
  BY <1>1
<1> DEFINE s == [d.scrap EXCEPT ![b + 1] = v]
           e == [d EXCEPT !.scrap = s]
<1>5. dev' = [dev EXCEPT ![m] = e]
  <2>1. m \in DOMAIN dev
    BY <1>2 DEF DeviceKnown
  <2> QED
    BY <1>4, <2>1
<1>6. /\ s \in [1..Blocks -> Contents] /\ s[b + 1] = v
      /\ \A c \in AllBlocks : c # b => s[c + 1] = d.scrap[c + 1]
  <2>1. b + 1 \in 1..Blocks /\ v \in Contents
    BY <1>3, BlocksFacts DEF Contents
  <2>2. \A c \in AllBlocks : c + 1 \in 1..Blocks /\ (c # b => c + 1 # b + 1)
    BY <1>3, BlocksFacts
  <2> QED
    BY <1>2, <2>1, <2>2
<1>7. ModuleKnown(e) /\ e.state = "active-updating" /\ e.scrap = s
  <2> HIDE DEF s
  <2>1. s \in Seq(Contents)
    BY <1>6, BlocksFacts
  <2> QED
    BY <1>2, <1>6, <2>1 DEF ModuleKnown, States
<1>8. DeviceKnown' /\ dev'[m] = e /\ \A k \in Modules : k # m => dev'[k] = dev[k]
  <2> HIDE DEF e
  <2> QED
    BY <1>2, <1>5, <1>7, OneModule
<1>9. CASE Throw /\ faulty' = TRUE
  BY <1>1, <1>2, <1>8, <1>9, EndStep DEF Throw, HostKnown
<1>10. CASE pc' = "block" /\ ((v = "new" /\ faulty' = faulty) \/ faulty' = TRUE)
  <2>1. HostKnown'
    BY <1>1, <1>2, <1>10 DEF HostKnown, Places
  <2>2. PhaseKnown'
    <3> HIDE DEF e
    <3> QED
      BY <1>1, <1>2, <1>7, <1>8, <1>10 DEF PhaseKnown
  <2>3. SentKnown'
    <3>1. SUFFICES ASSUME ~faulty', NEW c \in AllBlocks, c \notin upd' PROVE s[c + 1] = "new"
      <4> HIDE DEF e, s
      <4> QED
        BY <1>1, <1>7, <1>8, <1>10 DEF SentKnown
    <3>2. ~faulty /\ v = "new"
      BY <1>10, <3>1
    <3>3. \A x \in AllBlocks \ upd : d.scrap[x + 1] = "new"
      BY <1>1, <3>2 DEF UpdateInv, SentKnown
    <3> QED
      BY <1>1, <1>6, <3>1, <3>2, <3>3
  <2>4. DoneKnown'
    <3>1. \A k \in list : k < m => k # m
      BY <1>2, BlocksFacts
    <3> QED
      BY <1>1, <1>2, <1>8, <1>10, <3>1 DEF UpdateInv, DoneKnown
  <2> QED
    BY <1>8, <1>10, <2>1, <2>2, <2>3, <2>4 DEF UpdateInv, ParseKnown, ReportKnown, DecisionKnown, StoredKnown, ErrorKnown
<1> QED
  BY <1>4, <1>9, <1>10 DEF Answered

LEMMA SentStep == ASSUME UpdateInv, Sent, list' = list PROVE UpdateInv'
<1>1. /\ pc = "block" /\ upd = {} /\ pc' = "info" /\ again' = TRUE
      /\ UNCHANGED <<m, force, state, info, cursor, upd, ret, dev, faulty>>
  BY DEF Sent
<1>2. /\ DeviceKnown' /\ m \in Modules /\ ModuleKnown(dev[m]) /\ dev[m].state = "active-updating"
      /\ dev[m].scrap \in Seq(Contents) /\ dev[m].scrap \in [1..Blocks -> Contents]
  BY <1>1 DEF UpdateInv, DeviceKnown, HostKnown, PhaseKnown, ModuleKnown
<1>3. HostKnown' /\ PhaseKnown' /\ DoneKnown'
  BY <1>1, <1>2 DEF UpdateInv, HostKnown, PhaseKnown, DoneKnown, Places
<1>4. SentKnown'
  <2>1. SUFFICES ASSUME ~faulty PROVE dev[m].scrap = AllNew
    BY <1>1 DEF SentKnown
  <2>2. \A b \in AllBlocks : dev[m].scrap[b + 1] = "new"
    BY <1>1, <2>1 DEF UpdateInv, SentKnown
  <2>3. \A i \in 1..Blocks : dev[m].scrap[i] = "new"
    BY <2>2, BlocksFacts
  <2> QED
    BY <1>2, <2>3 DEF AllNew
<1> QED
  BY <1>1, <1>2, <1>3, <1>4 DEF UpdateInv, ParseKnown, ReportKnown, DecisionKnown, StoredKnown, ErrorKnown

LEMMA VerifyStep == ASSUME UpdateInv, Verify, list' = list PROVE UpdateInv'
<1>1. /\ pc = "verify" /\ again' = FALSE
      /\ UNCHANGED <<m, force, state, info, cursor, upd, dev, faulty>>
  BY DEF Verify
<1>2. /\ DeviceKnown' /\ HostKnown /\ m \in Modules /\ ModuleKnown(dev[m]) /\ again
      /\ dev[m].state = "active-updating" /\ Shown(dev[m]) = dev[m].scrap
  BY <1>1, ModuleParts DEF UpdateInv, DeviceKnown, HostKnown, PhaseKnown
<1>3. CASE upd # {}
  <2>1. pc' = "idle" /\ ret' = "Error"
    BY <1>3 DEF Verify, Throw
  <2>2. faulty
    <3>1. SUFFICES ASSUME ~faulty PROVE FALSE
      OBVIOUS
    <3>2. dev[m].scrap = AllNew
      BY <1>1, <1>2, <3>1 DEF UpdateInv, HostKnown, SentKnown
    <3> QED
      BY <1>1, <1>2, <1>3, <3>1, <3>2 DEF UpdateInv, ReportKnown
  <2> QED
    BY <1>1, <1>2, <2>1, <2>2, EndStep DEF HostKnown
<1>4. CASE upd = {}
  <2>1. pc' = "activate"
    BY <1>4 DEF Verify
  <2>2. HostKnown' /\ PhaseKnown' /\ DoneKnown'
    BY <1>1, <1>2, <2>1 DEF UpdateInv, HostKnown, PhaseKnown, DoneKnown, Places
  <2>3. SentKnown' /\ StoredKnown'
    BY <1>1, <1>4, <2>1 DEF UpdateInv, SentKnown, StoredKnown
  <2> QED
    BY <1>2, <2>1, <2>2, <2>3 DEF UpdateInv, ParseKnown, ReportKnown, DecisionKnown, ErrorKnown
<1> QED
  BY <1>3, <1>4

LEMMA ActivateStep == ASSUME UpdateInv, Activate, list' = list PROVE UpdateInv'
<1> DEFINE d == dev[m]
<1>1. pc = "activate" /\ UNCHANGED <<force, state, info, cursor, upd, again>>
  BY DEF Activate
<1>2. /\ m \in Modules /\ HostKnown /\ DeviceKnown /\ ModuleKnown(d) /\ ~again
      /\ ModuleKnown(Validated(d)) /\ Stored(d) /\ Stored(Validated(d))
  BY <1>1, ValidatedIs DEF UpdateInv, DeviceKnown, HostKnown, PhaseKnown, StoredKnown
<1>3. CASE IsLast
  <2>1. pc' = "idle" /\ ret' = "Ok" /\ UNCHANGED <<m, faulty>> /\ DeviceKnown'
    BY <1>2, <1>3, LastStep
  <2> QED
    BY <1>1, <1>2, <2>1, EndStep DEF HostKnown
<1>4. CASE ~IsLast
  <2>1. /\ m' = NextModule
        /\ dev' = dev \/ dev' = [dev EXCEPT ![m] = Validated(@)]
        /\ (pc' = "ver" /\ faulty' \in BOOLEAN) \/ (Throw /\ faulty' = TRUE)
    BY <1>2, <1>4 DEF Activate, Answered, HostKnown
  <2>2. NextModule \in list /\ NextModule \in Modules /\ \A k \in list : k < NextModule => k < m \/ k = m
    BY <1>1, <1>2, <1>4, NextIs
  <2>3. DeviceKnown' /\ \A k \in Modules : Stored(dev[k]) => Stored(dev'[k])
    <3>1. DOMAIN dev' = Modules /\ \A k \in Modules : dev'[k] = dev[k] \/ dev'[k] = Validated(dev[k])
      BY <1>2, <2>1 DEF DeviceKnown
    <3> QED
      BY <1>2, <3>1, FinishStep
  <2>4. CASE Throw /\ faulty' = TRUE
    BY <1>1, <1>2, <2>1, <2>2, <2>3, <2>4, EndStep DEF Throw, HostKnown
  <2>5. CASE pc' = "ver" /\ faulty' \in BOOLEAN
    <3>1. HostKnown'
      BY <1>1, <1>2, <2>1, <2>2, <2>5 DEF HostKnown, Places
    <3>2. DoneKnown'
      <4>1. \A k \in list : k < NextModule => k \in Modules /\ Stored(dev[k])
        BY <1>1, <1>2, <2>2 DEF UpdateInv, HostKnown, DoneKnown
      <4> QED
        BY <2>1, <2>3, <2>5, <4>1 DEF DoneKnown
    <3> QED
      BY <1>1, <1>2, <2>3, <2>5, <3>1, <3>2
         DEF UpdateInv, PhaseKnown, ParseKnown, ReportKnown, DecisionKnown, SentKnown, StoredKnown, ErrorKnown
  <2> QED
    BY <2>1, <2>4, <2>5
<1> QED
  BY <1>3, <1>4

-----------------------------------------------------------------------------
(* The theorems.                                                            *)

LEMMA UpdateInvInit == Init => UpdateInv
<1> SUFFICES ASSUME Init PROVE UpdateInv
  OBVIOUS
<1>1. 1 \in Modules
  BY UpdateAssumption DEF Modules
<1>2. HostKnown
  <2>1. /\ pc = "idle" /\ list = {} /\ m = 1 /\ upd = {} /\ cursor = 1
        /\ force = FALSE /\ again = FALSE /\ faulty = FALSE
    BY DEF Init
  <2>2. list \subseteq Modules /\ upd \subseteq AllBlocks
    BY <2>1
  <2>3. m \in Modules /\ cursor \in Nat \ {0} /\ pc \in Places
    BY <1>1, <2>1 DEF Places
  <2>4. force \in BOOLEAN /\ again \in BOOLEAN /\ faulty \in BOOLEAN
    BY <2>1
  <2> QED
    BY <2>1, <2>2, <2>3, <2>4 DEF HostKnown
<1>3. DeviceKnown
  <2>1. SUFFICES ASSUME NEW k \in Modules PROVE ModuleKnown(dev[k])
    BY DEF Init, DeviceKnown
  <2>2. dev[k] \in [state : {"empty"}, active : {<<>>}, scrap : {<<>>}]
                   \cup [state : {"active"}, active : OldModules, scrap : {<<>>}]
    BY DEF Init
  <2>3. <<>> \in Seq(Contents)
    OBVIOUS
  <2>4. CASE dev[k] \in [state : {"empty"}, active : {<<>>}, scrap : {<<>>}]
    BY <2>3, <2>4 DEF ModuleKnown, States
  <2>5. CASE dev[k] \in [state : {"active"}, active : OldModules, scrap : {<<>>}]
    <3>1. dev[k].active \in Seq({"new", "old"})
      BY <2>5, UpdateAssumption
    <3>2. dev[k].active \in Seq(Contents)
      BY <3>1 DEF Contents
    <3> QED
      BY <2>3, <2>5, <3>2 DEF ModuleKnown, States
  <2> QED
    BY <2>2, <2>4, <2>5
<1> QED
  BY <1>2, <1>3
     DEF Init, UpdateInv, PhaseKnown, ParseKnown, ReportKnown, DecisionKnown, SentKnown, StoredKnown, DoneKnown,
         ErrorKnown

LEMMA UpdateInvStep == UpdateInv /\ [Next]_vars => UpdateInv'
<1> SUFFICES ASSUME UpdateInv, [Next]_vars PROVE UpdateInv'
  OBVIOUS
<1>1. CASE Host
  BY <1>1, AskVersionStep, AskInfoStep, ParseRecordStep, ParseEndStep, DecideStep, SkipStep, InitModuleStep,
     SendBlockStep, SentStep, VerifyStep, ActivateStep DEF Host
<1>2. CASE \E l \in SUBSET Modules : Begin(l)
  BY <1>2, BeginStep
<1>3. CASE Interrupt \/ Restart \/ OtherUpdate
  BY <1>3, InterruptStep, RestartStep, OtherStep
<1>4. CASE UNCHANGED vars
  BY <1>4 DEF vars, hostVars, UpdateInv, HostKnown, DeviceKnown, PhaseKnown, ParseKnown, ReportKnown,
              DecisionKnown, SentKnown, StoredKnown, Read, DoneKnown, ErrorKnown, Differ
<1> QED
  BY <1>1, <1>2, <1>3, <1>4 DEF Next

\* What is known of the device and of what was read holds in every state of burning.
THEOREM UpdateInvariant == Spec => []UpdateInv
<1> QED
  BY UpdateInvInit, UpdateInvStep, PTL DEF Spec

LEMMA UpdateInvGives == UpdateInv => CleanAttemptSucceeds /\ NoNeedlessBurn
<1>1. UpdateInv => CleanAttemptSucceeds
  BY DEF UpdateInv, ErrorKnown, CleanAttemptSucceeds
<1>2. UpdateInv => NoNeedlessBurn
  <2> SUFFICES ASSUME UpdateInv, pc = "init", ~faulty, ~force, dev[m].state = "active"
               PROVE  dev[m].active # AllNew
    BY DEF NoNeedlessBurn
  <2>1. state = "active" /\ ModuleKnown(dev[m])
    BY DEF UpdateInv, HostKnown, DeviceKnown, PhaseKnown
  <2> QED
    BY <2>1, ModuleParts DEF UpdateInv, DecisionKnown
<1> QED
  BY <1>1, <1>2

\* An attempt in which nothing failed outside the host is not reported as an error, whatever an
\* earlier one left on the device.
THEOREM CleanAttemptSucceedsHolds == Spec => []CleanAttemptSucceeds
<1> QED
  BY UpdateInvGives, UpdateInvariant, PTL

\* A module that is current is not burnt again, unless it is forced or the report was damaged.
THEOREM NoNeedlessBurnHolds == Spec => []NoNeedlessBurn
<1> QED
  BY UpdateInvGives, UpdateInvariant, PTL

\* The step that reports Ok leaves every module that was asked for with the file's blocks.
LEMMA StoredStep ==
    ASSUME UpdateInv, Next, pc # "idle", pc' = "idle", ret' = "Ok", NEW k \in list
    PROVE  Stored(dev'[k])
<1>1. /\ HostKnown /\ DeviceKnown /\ m \in Modules /\ k \in Modules /\ list \subseteq Nat
      /\ k < m => Stored(dev[k])
  BY BlocksFacts DEF UpdateInv, HostKnown, DoneKnown
<1>2. (Skip \/ Activate) /\ IsLast
  BY DEF Next, Host, Begin, Interrupt, Restart, OtherUpdate, hostVars, AskVersion, AskInfo, ParseRecord,
         ParseEnd, Decide, Skip, InitModule, SendBlock, Sent, Verify, Activate, Answered, Throw, AfterParse
<1>3. k < m \/ k = m
  BY <1>1, <1>2, BlocksFacts DEF IsLast
<1>4. Stored(dev[m])
  BY <1>2 DEF Skip, Activate, UpdateInv, StoredKnown
<1> QED
  BY <1>1, <1>2, <1>3, <1>4, LastStep

\* When the attempt reports Ok every block of every module that was asked for is on the device,
\* however the answers were damaged or cut short, and whatever becomes of the last command.
THEOREM StoredWhenOkHolds == Spec => StoredWhenOk
<1>1. ASSUME UpdateInv, [Next]_vars
      PROVE  [pc # "idle" /\ pc' = "idle" /\ ret' = "Ok" => \A k \in list : Stored(dev'[k])]_vars
  BY <1>1, StoredStep
<1> QED
  BY <1>1, UpdateInvariant, PTL DEF Spec, StoredWhenOk

-----------------------------------------------------------------------------
(* The inductive invariant of the tool.                                     *)

\* It burns only while it waits for UpdateModules, and what it was asked for goes with its policy.
BurningKnown ==
    /\ pc # "idle" => step \in {"burning", "rest"}
    /\ names \subseteq Modules
    /\ step \in {"approve", "burning", "redetect", "rest"} => policy \in {"CONTINOUS", "OPFW_FIRST"}
    /\ step = "burning" => list = IF policy = "CONTINOUS" THEN names ELSE {OPFW}
    /\ step = "rest" => list = names \ {OPFW}

\* What has been stored, from the result of a burning to the tool's own.
ProgressKnown ==
    /\ step \in {"burning", "rest"} /\ pc = "idle" /\ ret = "Ok" => \A k \in list : Stored(dev[k])
    /\ step \in {"redetect", "rest"} => Stored(dev[OPFW])
    /\ unseen \in BOOLEAN /\ (unseen => step \in Over)
    /\ SuccessIsStored

ToolInv == UpdateInv /\ BurningKnown /\ ProgressKnown

-----------------------------------------------------------------------------
(* The facts that the steps share.                                          *)

LEMMA ToolModules == OPFW \in Modules /\ RECOG \in Modules /\ OPFW # RECOG
BY UpdateAssumption, ToolAssumption DEF OPFW, RECOG, Modules

\* No module loses the file's blocks but the one that is being burnt again: a restart and another
\* program's update do not take them.
LEMMA StoredStays ==
    ASSUME UpdateInv, Host \/ Interrupt \/ Restart \/ OtherUpdate, NEW k \in Modules,
           pc = "idle" \/ k # m
    PROVE  Stored(dev[k]) => Stored(dev'[k])
<1>1. /\ HostKnown /\ DeviceKnown /\ DOMAIN dev = Modules /\ m \in Modules
      /\ \A i \in Modules : ModuleKnown(dev[i])
  BY DEF UpdateInv, HostKnown, DeviceKnown
<1>2. CASE Restart
  BY <1>1, <1>2, RebootedIs DEF Restart
<1>3. CASE Skip \/ Activate
  <2>1. CASE IsLast
    BY <1>1, <1>3, <2>1, LastStep
  <2>2. CASE ~IsLast
    <3>1. dev' = dev \/ dev' = [dev EXCEPT ![m] = Validated(@)]
      BY <1>3, <2>2 DEF Skip, Activate, Answered
    <3>2. pc # "idle"
      BY <1>3 DEF Skip, Activate
    <3> QED
      BY <1>1, <3>1, <3>2
  <2> QED
    BY <2>1, <2>2
<1>4. CASE InitModule
  <2>1. PICK s : dev' = [dev EXCEPT ![m].scrap = s, ![m].state = "active-updating"]
    BY <1>1, <1>4 DEF InitModule
  <2> QED
    BY <1>1, <1>4, <2>1 DEF InitModule
<1>5. CASE SendBlock
  <2>1. PICK b, v : dev' = [dev EXCEPT ![m].scrap[b + 1] = v]
    BY <1>5 DEF SendBlock
  <2> QED
    BY <1>1, <1>5, <2>1 DEF SendBlock
<1>6. CASE OtherUpdate
  <2>1. PICK i \in Modules, s \in [1..Blocks -> {"old", "new"}] :
          /\ dev[i].state = "active"
          /\ dev' = [dev EXCEPT ![i].state = "active-updating", ![i].scrap = s]
    BY <1>6 DEF OtherUpdate
  <2>2. dev[i].scrap # AllNew
    BY <1>1, <2>1, NewFacts DEF ModuleKnown
  <2>3. dev'[k] = dev[k] \/ (k = i /\ dev'[k].active = dev[k].active)
    BY <1>1, <2>1 DEF ModuleKnown
  <2> QED
    BY <2>2, <2>3 DEF Stored
<1>7. CASE Interrupt \/ AskVersion \/ AskInfo \/ ParseRecord \/ ParseEnd \/ Decide \/ Sent \/ Verify
  BY <1>7 DEF Interrupt, AskVersion, AskInfo, ParseRecord, ParseEnd, Decide, Sent, Verify
<1> QED
  BY <1>2, <1>3, <1>4, <1>5, <1>6, <1>7 DEF Host

\* UpdateModules returns: what it knew is gone, the device is as it was.
LEMMA ReturnedStep ==
    ASSUME UpdateInv, Returned
    PROVE  UpdateInv'
<1>1. /\ pc' = "idle" /\ ret' = "None" /\ list' = {} /\ m' = 1 /\ upd' = {} /\ cursor' = 1 /\ dev' = dev
      /\ force' = FALSE /\ again' = FALSE /\ faulty' = FALSE
  BY DEF Returned
<1>2. DeviceKnown'
  BY <1>1 DEF UpdateInv, DeviceKnown
<1>3. 1 \in Modules
  BY UpdateAssumption DEF Modules
<1>4. list' \subseteq Modules /\ m' \in Modules /\ upd' \subseteq AllBlocks /\ cursor' \in Nat \ {0}
  BY <1>1, <1>3
<1>5. force' \in BOOLEAN /\ again' \in BOOLEAN /\ faulty' \in BOOLEAN
  BY <1>1
<1> QED
  BY <1>1, <1>2, <1>4, <1>5, EndStep DEF UpdateInv

-----------------------------------------------------------------------------
(* The steps of the tool.                                                   *)

\* The steps that leave burning alone, outside of it.
LEMMA QuietStep ==
    ASSUME ToolInv, UNCHANGED vars, step \notin {"burning", "rest"},
           names' \subseteq Modules,
           step' \in {"approve", "redetect"} => policy' \in {"CONTINOUS", "OPFW_FIRST"},
           step' \notin {"burning", "rest"},
           unseen' \in BOOLEAN, unseen' => step' \in Over,
           step' = "redetect" => step = "redetect",
           step' = "success" => SuccessIsStored'
    PROVE  ToolInv'
<1>1. pc = "idle" /\ pc' = pc /\ dev' = dev
  BY DEF ToolInv, BurningKnown, vars, hostVars
<1>2. UpdateInv'
  BY UpdateInvStep DEF ToolInv
<1>3. BurningKnown'
  BY <1>1 DEF BurningKnown
<1>4. ProgressKnown'
  BY <1>1 DEF ToolInv, ProgressKnown, SuccessIsStored
<1> QED
  BY <1>2, <1>3, <1>4 DEF ToolInv

\* UpdateModules is called: of no modules at all it has returned at once.
LEMMA CallStep ==
    ASSUME ToolInv, NEW l \in SUBSET Modules, UpdateModules(l),
           names' \subseteq Modules, unseen' = unseen, step \notin Over, policy' \in {"CONTINOUS", "OPFW_FIRST"},
           \/ step' = "burning" /\ l = IF policy' = "CONTINOUS" THEN names' ELSE {OPFW}
           \/ step' = "rest" /\ l = names' \ {OPFW} /\ Stored(dev[OPFW])
    PROVE  ToolInv'
<1>1. Begin(l) /\ list' = l /\ dev' = dev /\ (pc' = "idle" => l = {})
  BY DEF UpdateModules, Begin
<1>2. UpdateInv'
  BY <1>1, BeginStep DEF ToolInv
<1>3. BurningKnown'
  BY <1>1 DEF BurningKnown
<1>4. ProgressKnown'
  BY <1>1 DEF ToolInv, ProgressKnown, SuccessIsStored
<1> QED
  BY <1>2, <1>3, <1>4 DEF ToolInv

LEMMA StartStep == ASSUME ToolInv, Start PROVE ToolInv'
<1>1. step' \in {"failed", "crashed", "file"} /\ names' = {} /\ unseen' = FALSE /\ UNCHANGED vars /\ step \in Over
  BY DEF Start
<1> QED
  BY <1>1, QuietStep DEF Over

LEMMA CheckFileStep == ASSUME ToolInv, CheckFile PROVE ToolInv'
<1>1. step = "file" /\ step' \in {"failed", "crashed", "policy"} /\ UNCHANGED vars
  BY DEF CheckFile, Continue
<1>2. names' \subseteq Modules
  <2>1. CASE names' = names
    BY <2>1 DEF ToolInv, BurningKnown
  <2>2. CASE \E file \in Usable : names' = DOMAIN file.entries
    <3>1. PICK file \in Files : ExtractFwInformation(file) # {} /\ names' = DOMAIN file.entries
      BY <2>2 DEF Usable
    <3>2. Len(file.entries) = NModules
      BY <3>1, ToolAssumption
    <3> QED
      BY <3>1, <3>2 DEF Modules
  <2> QED
    BY <2>1, <2>2 DEF CheckFile
<1>3. unseen' = unseen /\ step \notin Over
  BY <1>1 DEF CheckFile, Over
<1> QED
  BY <1>1, <1>2, <1>3, QuietStep DEF ToolInv, ProgressKnown

LEMMA ApplyPolicyStep == ASSUME ToolInv, ApplyPolicy PROVE ToolInv'
<1>1. /\ step = "policy" /\ UNCHANGED <<vars, names, unseen>> /\ step \notin Over
      /\ \/ step' = "approve" /\ policy' \in {"CONTINOUS", "OPFW_FIRST"}
         \/ step' = "failed"
  BY DEF ApplyPolicy, Continue, Over
<1> QED
  BY <1>1, QuietStep DEF ToolInv, BurningKnown, ProgressKnown

LEMMA RefuseStep == ASSUME ToolInv, Refuse PROVE ToolInv'
<1>1. step = "approve" /\ step' = "failed" /\ UNCHANGED <<vars, names, unseen>> /\ step \notin Over
  BY DEF Refuse, Continue, Over
<1> QED
  BY <1>1, QuietStep DEF ToolInv, BurningKnown, ProgressKnown

LEMMA ApproveStep == ASSUME ToolInv, Approve PROVE ToolInv'
<1>1. /\ step = "approve" /\ step' = "burning" /\ policy' = policy /\ unseen' = unseen
      /\ names' = names \/ names' = names \ {RECOG}
      /\ UpdateModules(IF policy = "CONTINOUS" THEN names' ELSE {OPFW})
  BY DEF Approve
<1>2. names' \subseteq Modules /\ policy' \in {"CONTINOUS", "OPFW_FIRST"}
  BY <1>1 DEF ToolInv, BurningKnown
<1>3. (IF policy = "CONTINOUS" THEN names' ELSE {OPFW}) \in SUBSET Modules
  BY <1>2, ToolModules
<1> QED
  BY <1>1, <1>2, <1>3, CallStep DEF Over

LEMMA BurntStep == ASSUME ToolInv, Burnt PROVE ToolInv'
<1>1. /\ step = "burning" /\ Returned /\ pc = "idle" /\ pc' = "idle" /\ dev' = dev
      /\ UNCHANGED <<names, unseen>>
      /\ step' = IF ret # "Ok" THEN "failed" ELSE IF policy = "CONTINOUS" THEN "success" ELSE "redetect"
      /\ (step' = "redetect" => policy' = policy)
  BY DEF Burnt, Returned, Continue, Over
<1>2. UpdateInv'
  BY <1>1, ReturnedStep DEF ToolInv
<1>3. (ret = "Ok" => \A k \in list : Stored(dev[k])) /\ unseen = FALSE
  BY <1>1 DEF ToolInv, ProgressKnown, Over
<1>4. /\ list = IF policy = "CONTINOUS" THEN names ELSE {OPFW}
      /\ names \subseteq Modules /\ policy \in {"CONTINOUS", "OPFW_FIRST"}
  BY <1>1 DEF ToolInv, BurningKnown
<1>5. BurningKnown'
  BY <1>1, <1>4 DEF BurningKnown
<1>6. ProgressKnown'
  BY <1>1, <1>3, <1>4 DEF ProgressKnown, SuccessIsStored
<1> QED
  BY <1>2, <1>5, <1>6 DEF ToolInv

LEMMA RedetectStep == ASSUME ToolInv, Redetect PROVE ToolInv'
<1>1. step = "redetect" /\ UNCHANGED <<names, unseen>> /\ step \notin Over
  BY DEF Redetect, Over
<1>2. /\ names \subseteq Modules /\ policy \in {"CONTINOUS", "OPFW_FIRST"}
      /\ Stored(dev[OPFW]) /\ ~unseen /\ unseen \in BOOLEAN
  BY <1>1 DEF ToolInv, BurningKnown, ProgressKnown
<1>3. CASE step' = "rest" /\ UpdateModules(names \ {OPFW}) /\ policy' = policy
  <2>1. names \ {OPFW} \in SUBSET Modules
    BY <1>2
  <2> QED
    BY <1>1, <1>2, <1>3, <2>1, CallStep
<1>4. CASE UNCHANGED <<step, policy, vars>>
  BY <1>1, <1>2, <1>4, QuietStep
<1>5. CASE step' = "crashed" /\ UNCHANGED vars
  BY <1>1, <1>2, <1>5, QuietStep
<1> QED
  BY <1>3, <1>4, <1>5 DEF Redetect, Continue

LEMMA GiveUpStep == ASSUME ToolInv, GiveUp PROVE ToolInv'
<1>1. step = "redetect" /\ step' = "success" /\ unseen' = TRUE /\ UNCHANGED <<names, vars>>
  BY DEF GiveUp, Continue
<1>2. SuccessIsStored'
  <2>1. Stored(dev[OPFW]) /\ dev' = dev
    BY <1>1 DEF vars, ToolInv, ProgressKnown
  <2> QED
    BY <1>1, <2>1 DEF SuccessIsStored
<1> QED
  BY <1>1, <1>2, QuietStep DEF ToolInv, BurningKnown, Over

LEMMA RestBurntStep == ASSUME ToolInv, RestBurnt PROVE ToolInv'
<1>1. /\ step = "rest" /\ Returned /\ pc = "idle" /\ pc' = "idle" /\ dev' = dev
      /\ UNCHANGED <<names, unseen>>
      /\ step' = IF ret = "Ok" THEN "success" ELSE "failed"
  BY DEF RestBurnt, Returned, Continue
<1>2. UpdateInv'
  BY <1>1, ReturnedStep DEF ToolInv
<1>3. (ret = "Ok" => \A k \in list : Stored(dev[k])) /\ unseen = FALSE
  BY <1>1 DEF ToolInv, ProgressKnown, Over
<1>4. Stored(dev[OPFW])
  BY <1>1 DEF ToolInv, ProgressKnown
<1>5. list = names \ {OPFW} /\ names \subseteq Modules
  BY <1>1 DEF ToolInv, BurningKnown
<1>6. BurningKnown'
  BY <1>1, <1>5 DEF BurningKnown
<1>7. ProgressKnown'
  BY <1>1, <1>3, <1>4, <1>5 DEF ProgressKnown, SuccessIsStored
<1> QED
  BY <1>2, <1>6, <1>7 DEF ToolInv

\* The steps of burning, while the tool waits, and what happens outside of both.
LEMMA BurningStep ==
    ASSUME ToolInv, Host \/ Interrupt \/ Restart \/ OtherUpdate, UNCHANGED toolVars, ToolNext
    PROVE  ToolInv'
<1>1. UNCHANGED <<step, policy, names, unseen>> /\ list' = list
  BY DEF toolVars, Host, Interrupt, Restart, OtherUpdate, hostVars
<1>2. Next
  BY DEF Next
<1>3. UpdateInv'
  BY <1>2, UpdateInvStep DEF ToolInv
<1>4. pc = "idle" => pc' = "idle" /\ ret' = ret
  BY DEF Host, Interrupt, Restart, OtherUpdate, hostVars, AskVersion, AskInfo, ParseRecord, ParseEnd, Decide,
         Skip, InitModule, SendBlock, Sent, Verify, Activate
<1>5. BurningKnown'
  BY <1>1, <1>4 DEF ToolInv, BurningKnown
<1>6. \A k \in Modules : pc = "idle" \/ k # m => (Stored(dev[k]) => Stored(dev'[k]))
  BY StoredStays DEF ToolInv
<1>7. list \subseteq Modules /\ OPFW \in Modules /\ names \subseteq Modules
  BY ToolModules DEF ToolInv, UpdateInv, HostKnown, BurningKnown
<1>8. ASSUME pc' = "idle", ret' = "Ok", step \in {"burning", "rest"}, NEW k \in list
      PROVE  Stored(dev'[k])
  <2>1. CASE pc = "idle"
    BY <1>4, <1>6, <1>7, <1>8, <2>1 DEF ToolInv, ProgressKnown
  <2>2. CASE pc # "idle"
    BY <1>2, <1>8, <2>2, StoredStep DEF ToolInv
  <2> QED
    BY <2>1, <2>2
<1>9. ASSUME step \in {"redetect", "rest"} PROVE Stored(dev'[OPFW])
  <2>1. pc = "idle" \/ OPFW # m
    BY <1>9 DEF ToolInv, UpdateInv, HostKnown, BurningKnown
  <2> QED
    BY <1>6, <1>7, <1>9, <2>1 DEF ToolInv, ProgressKnown
<1>10. SuccessIsStored'
  <2>1. step = "success" => pc = "idle"
    BY DEF ToolInv, BurningKnown
  <2> QED
    BY <1>1, <1>6, <1>7, <2>1 DEF ToolInv, ProgressKnown, SuccessIsStored
<1>11. ProgressKnown'
  BY <1>1, <1>8, <1>9, <1>10 DEF ToolInv, ProgressKnown
<1> QED
  BY <1>3, <1>5, <1>11 DEF ToolInv

-----------------------------------------------------------------------------
(* The theorems.                                                            *)

LEMMA ToolInvInit == ToolInit => ToolInv
<1> SUFFICES ASSUME ToolInit PROVE ToolInv
  OBVIOUS
<1>1. Init /\ step = "off" /\ names = {} /\ pc = "idle"
  BY DEF ToolInit, Init
<1> QED
  BY <1>1, UpdateInvInit DEF ToolInit, ToolInv, BurningKnown, ProgressKnown, SuccessIsStored

LEMMA ToolInvStep == ToolInv /\ [ToolNext]_allVars => ToolInv'
<1> SUFFICES ASSUME ToolInv, [ToolNext]_allVars PROVE ToolInv'
  OBVIOUS
<1>1. CASE ToolNext
  <2>1. CASE Start \/ Tool
    BY <2>1, StartStep, CheckFileStep, ApplyPolicyStep, RefuseStep, ApproveStep, BurntStep, RedetectStep,
       GiveUpStep, RestBurntStep DEF Tool
  <2>2. CASE (Host \/ Interrupt \/ Restart \/ OtherUpdate) /\ UNCHANGED toolVars
    BY <1>1, <2>2, BurningStep
  <2> QED
    BY <1>1, <2>1, <2>2 DEF ToolNext
<1>2. CASE UNCHANGED allVars
  <2>1. UpdateInv'
    BY <1>2, UpdateInvStep DEF allVars, ToolInv
  <2> QED
    BY <1>2, <2>1 DEF allVars, vars, hostVars, toolVars, ToolInv, BurningKnown, ProgressKnown, SuccessIsStored
<1> QED
  BY <1>1, <1>2

\* The invariant of burning holds while the tool calls it, and with it that of the tool.
THEOREM ToolInvariant == ToolSpec => []ToolInv
<1> QED
  BY ToolInvInit, ToolInvStep, PTL DEF ToolSpec

\* A tool that reports success has stored every block of every module the user agreed to, in one
\* burning or in two; when the device stayed away in between, those of OPFW.
THEOREM SuccessIsStoredHolds == ToolSpec => []SuccessIsStored
<1>1. ToolInv => SuccessIsStored
  BY DEF ToolInv, ProgressKnown
<1> QED
  BY <1>1, ToolInvariant, PTL

\* With OPFW_FIRST no other module is written before every block of the file's OPFW is stored.
THEOREM OpfwIsFirstHolds == ToolSpec => []OpfwIsFirst
<1>1. ToolInv => OpfwIsFirst
  <2> SUFFICES ASSUME ToolInv, policy = "OPFW_FIRST", pc = "block", m # OPFW
               PROVE  Stored(dev[OPFW])
    BY DEF OpfwIsFirst
  <2>1. m \in list
    BY DEF ToolInv, UpdateInv, HostKnown
  <2>2. step = "rest"
    BY <2>1 DEF ToolInv, BurningKnown
  <2> QED
    BY <2>2 DEF ToolInv, ProgressKnown
<1> QED
  BY <1>1, ToolInvariant, PTL

\* A tool that is run again after any failure is not stopped by what the failure left.
THEOREM CleanBurningSucceeds == ToolSpec => []CleanAttemptSucceeds
<1>1. ToolInv => CleanAttemptSucceeds
  BY UpdateInvGives DEF ToolInv
<1> QED
  BY <1>1, ToolInvariant, PTL

\* Nor does it burn, unforced and well informed, what is current.
THEOREM CurrentIsNotBurnt == ToolSpec => []NoNeedlessBurn
<1>1. ToolInv => NoNeedlessBurn
  BY UpdateInvGives DEF ToolInv
<1> QED
  BY <1>1, ToolInvariant, PTL

\* The recognition module is left alone when the user refused it: no step of a burning touches a
\* module that it was not asked for, other than the restart.
THEOREM RefusedIsKeptHolds == ToolSpec => RefusedIsKept
<1>1. ASSUME ToolInv, [ToolNext]_allVars
      PROVE  [pc # "idle" /\ RECOG \notin names =>
                dev'[RECOG] \in {dev[RECOG], Rebooted(dev[RECOG])}]_allVars
  <2> SUFFICES ASSUME ToolNext, pc # "idle", RECOG \notin names
               PROVE  dev'[RECOG] \in {dev[RECOG], Rebooted(dev[RECOG])}
    BY <1>1
  <2>1. m # RECOG /\ RECOG \in Modules /\ DOMAIN dev = Modules
    BY <1>1, ToolModules DEF ToolInv, BurningKnown, UpdateInv, HostKnown, DeviceKnown
  <2>2. CASE Skip \/ Restart \/ Activate
    <3>1. CASE Restart
      BY <2>1, <3>1 DEF Restart
    <3>2. CASE (Skip \/ Activate) /\ IsLast
      <4>1. Finish(dev) \/ Finish([dev EXCEPT ![m] = Validated(@)])
        BY <3>2 DEF Skip, Activate
      <4> QED
        BY <2>1, <4>1 DEF Finish
    <3>3. CASE (Skip \/ Activate) /\ ~IsLast
      <4>1. dev' = dev \/ dev' = [dev EXCEPT ![m] = Validated(@)]
        BY <3>3 DEF Skip, Activate, Answered
      <4> QED
        BY <2>1, <4>1
    <3> QED
      BY <2>2, <3>1, <3>2, <3>3
  <2>3. CASE InitModule \/ SendBlock
    <3>1. CASE InitModule
      <4>1. PICK s : dev' = [dev EXCEPT ![m].scrap = s, ![m].state = "active-updating"]
        BY <2>1, <3>1 DEF InitModule
      <4> QED
        BY <2>1, <4>1
    <3>2. CASE SendBlock
      <4>1. PICK b, v : dev' = [dev EXCEPT ![m].scrap[b + 1] = v]
        BY <3>2 DEF SendBlock
      <4> QED
        BY <2>1, <4>1
    <3> QED
      BY <2>3, <3>1, <3>2
  <2>4. CASE dev' = dev
    BY <2>4
  <2>5. Skip \/ Restart \/ Activate \/ InitModule \/ SendBlock \/ dev' = dev
    BY DEF ToolNext, Tool, Start, CheckFile, ApplyPolicy, Refuse, Approve, Burnt, Redetect, GiveUp, RestBurnt,
           UpdateModules, Begin, Returned, vars, Host, Interrupt, OtherUpdate, AskVersion, AskInfo,
           ParseRecord, ParseEnd, Decide, Sent, Verify
  <2> QED
    BY <2>2, <2>3, <2>4, <2>5
<1> QED
  BY <1>1, ToolInvariant, PTL DEF ToolSpec, RefusedIsKept

-----------------------------------------------------------------------------
(* The types of the tool.                                                   *)

Reports == [empty : BOOLEAN, recs : Seq(Record)]

\* Of burning, what its invariant does not say.
BurningTyped == state \in States /\ info \in Reports /\ ret \in {"None", "Ok", "Error"} /\ session \in BOOLEAN

MainTyped ==
    /\ step \in Over \cup {"file", "policy", "approve", "burning", "redetect", "rest"}
    /\ args \in Arguments /\ meta \in Metadata /\ policy \in Policies
    /\ waited \in MinWait..MaxWait /\ unseen \in BOOLEAN

\* The lines that may be read of a text: its own, and what a cut leaves of one.
LinesRead(text) == {text[i] : i \in DOMAIN text} \cup {Cut(text[i]) : i \in DOMAIN text}

LEMMA ReadableIs ==
    ASSUME NEW T, NEW text \in Seq(T), NEW read \in Readable(text), NEW i \in DOMAIN read
    PROVE  read[i] \in LinesRead(text)
<1>1. DOMAIN text = 1..Len(text) /\ Len(text) \in Nat
  OBVIOUS
<1>2. CASE \E n \in 0..Len(text) : read = SubSeq(text, 1, n)
  <2>1. PICK n \in 0..Len(text) : read = SubSeq(text, 1, n)
    BY <1>2
  <2>2. i \in 1..n /\ i \in DOMAIN text /\ read[i] = text[i]
    BY <1>1, <2>1
  <2> QED
    BY <2>2 DEF LinesRead
<1>3. CASE \E n \in 1..Len(text) : read = SubSeq(text, 1, n - 1) \o <<Cut(text[n])>>
  <2>1. PICK n \in 1..Len(text) : read = SubSeq(text, 1, n - 1) \o <<Cut(text[n])>>
    BY <1>3
  <2> DEFINE c == Cut(text[n])
             q == SubSeq(text, 1, n - 1)
  <2>2. q \in Seq(T) /\ Len(q) = n - 1 /\ \A j \in 1..(n - 1) : q[j] = text[j]
    BY <1>1
  <2>3. c \in LinesRead(text)
    BY <1>1 DEF LinesRead
  <2>4. read = q \o <<c>>
    BY <2>1
  <2> HIDE DEF c, q
  <2>5. q \in Seq(T \cup {c}) /\ <<c>> \in Seq(T \cup {c})
    <3>1. q \in [1..(n - 1) -> T \cup {c}]
      BY <2>2
    <3> QED
      BY <3>1
  <2>6. DOMAIN read = 1..n /\ read[n] = c /\ \A j \in 1..(n - 1) : read[j] = q[j]
    BY <2>2, <2>4, <2>5
  <2>7. CASE i = n
    BY <2>3, <2>6, <2>7
  <2>8. CASE i # n
    <3>1. i \in 1..(n - 1) /\ i \in DOMAIN text
      BY <1>1, <2>6, <2>8
    <3> QED
      BY <2>2, <2>6, <3>1 DEF LinesRead
  <2> QED
    BY <2>7, <2>8
<1> QED
  BY <1>2, <1>3 DEF Readable

\* Any line that a query finds is one that may be read of the text.
LEMMA QueryFinds ==
    ASSUME NEW T, NEW text \in Seq(T), NEW wanted, NEW v \in Query("Ok", text, wanted),
           NEW i \in DOMAIN v.lines
    PROVE  v.lines[i] \in LinesRead(text)
<1>1. v.lines # NoText
  BY DEF NoText
<1>2. PICK read \in Readable(text) : v.lines = LinesOf(read, wanted)
  BY <1>1 DEF Query
<1>3. i \in DOMAIN read /\ v.lines[i] = read[i]
  BY <1>2 DEF LinesOf
<1> QED
  BY <1>3, ReadableIs

\* The version of a module is what one of the lines about it says, or unknown.
LEMMA VersionIs ==
    ASSUME NEW lines, NEW name, ModuleVersion(lines, name) # Unknown
    PROVE  \E i \in DOMAIN lines : lines[i].of = name /\ ModuleVersion(lines, name) = lines[i].says
<1> DEFINE found == LinesOf(lines, {name})
           said == FirstLine(found)
           i == CHOOSE k \in DOMAIN said : TRUE
<1>1. said # NoText /\ ModuleVersion(lines, name) = said[i].says
  BY DEF ModuleVersion
<1>2. DOMAIN said # {}
  <2>1. said = [k \in DOMAIN said |-> found[k]]
    BY DEF FirstLine
  <2> HIDE DEF said, found
  <2> QED
    BY <1>1, <2>1 DEF NoText
<1>3. i \in DOMAIN said
  BY <1>2
<1>4. i \in DOMAIN found /\ said[i] = found[i]
  BY <1>3 DEF FirstLine
<1>5. i \in DOMAIN lines /\ lines[i].of = name /\ found[i] = lines[i]
  BY <1>4 DEF LinesOf
<1> QED
  BY <1>1, <1>4, <1>5

\* What the queries find of the device is of the metadata's types.
LEMMA MetadataFound == QueryDeviceMetadata \subseteq Metadata
<1>1. ASSUME NEW text \in VersionTexts, NEW v \in QueryFirmwareVersion("Ok", text)
      PROVE  ModuleVersion(v.lines, "RECOG") \in {Unknown, <<1>>, <<2>>}
  <2> SUFFICES ASSUME ModuleVersion(v.lines, "RECOG") # Unknown
               PROVE  ModuleVersion(v.lines, "RECOG") \in {Unknown, <<1>>, <<2>>}
    OBVIOUS
  <2>1. PICK i \in DOMAIN v.lines :
             v.lines[i].of = "RECOG" /\ ModuleVersion(v.lines, "RECOG") = v.lines[i].says
    BY VersionIs
  <2>2. PICK a \in Majors, b \in 1..2 :
             text = <<[of |-> "OPFW", says |-> <<a>>], [of |-> "RECOG", says |-> <<b>>]>>
    BY DEF VersionTexts
  <2> DEFINE o == [of |-> "OPFW", says |-> <<a>>]
             r == [of |-> "RECOG", says |-> <<b>>]
  <2>3. text \in Seq({o, r}) /\ DOMAIN text = 1..2 /\ text[1] = o /\ text[2] = r
    BY <2>2
  <2>4. v.lines[i] \in LinesRead(text)
    BY <2>3, QueryFinds DEF QueryFirmwareVersion
  <2>5. v.lines[i] \in {o, r, Cut(o), Cut(r)}
    BY <2>3, <2>4 DEF LinesRead
  <2>6. v.lines[i].says \in {<<b>>, Unknown}
    BY <2>1, <2>5 DEF Cut
  <2>7. b = 1 \/ b = 2
    OBVIOUS
  <2> QED
    BY <2>1, <2>6, <2>7
<1>2. ASSUME NEW text \in SerialTexts, NEW v \in QuerySerialNumber("Ok", text)
      PROVE  ModuleVersion(v.lines, "SN") \in {Unknown, <<0>>, <<1>>}
  <2> SUFFICES ASSUME ModuleVersion(v.lines, "SN") # Unknown
               PROVE  ModuleVersion(v.lines, "SN") \in {Unknown, <<0>>, <<1>>}
    OBVIOUS
  <2>1. PICK i \in DOMAIN v.lines :
             v.lines[i].of = "SN" /\ ModuleVersion(v.lines, "SN") = v.lines[i].says
    BY VersionIs
  <2>2. PICK otp \in 0..1 : text = <<[of |-> "SN", says |-> <<otp>>]>>
    BY DEF SerialTexts
  <2> DEFINE s == [of |-> "SN", says |-> <<otp>>]
  <2>3. text \in Seq({s}) /\ DOMAIN text = 1..1 /\ text[1] = s
    BY <2>2
  <2>4. PICK q \in Query("Ok", text, {"SN"}) : v = [q EXCEPT !.lines = FirstLine(@)]
    BY DEF QuerySerialNumber
  <2>5. i \in DOMAIN q.lines /\ v.lines[i] = q.lines[i]
    <3>1. "lines" \in DOMAIN q
      BY <2>4 DEF Query
    <3>2. v.lines = FirstLine(q.lines)
      BY <2>4, <3>1
    <3> QED
      BY <3>2 DEF FirstLine
  <2>6. v.lines[i] \in LinesRead(text)
    BY <2>3, <2>4, <2>5, QueryFinds
  <2>7. v.lines[i] \in {s, Cut(s)}
    BY <2>3, <2>6 DEF LinesRead
  <2>8. v.lines[i].says \in {<<otp>>, Unknown}
    BY <2>7 DEF Cut
  <2>9. otp = 0 \/ otp = 1
    OBVIOUS
  <2> QED
    BY <2>1, <2>8, <2>9
<1>3. {ModuleVersion(v.lines, "RECOG") : v \in UNION {QueryFirmwareVersion("Ok", text) : text \in VersionTexts}}
      \subseteq {Unknown, <<1>>, <<2>>}
  BY <1>1
<1>4. {ModuleVersion(v.lines, "SN") : v \in UNION {QuerySerialNumber("Ok", text) : text \in SerialTexts}}
      \subseteq {Unknown, <<0>>, <<1>>}
  BY <1>2
<1> QED
  BY <1>3, <1>4 DEF QueryDeviceMetadata, Metadata

\* The report of a module, as it is or as it was cut, is one of records.
LEMMA RecordsTyped == ASSUME NEW s \in Seq(Contents) PROVE Records(s) \in Seq(Record)
<1>1. Len(s) \in Nat
  OBVIOUS
<1>2. Records(s) \in [1..Len(s) -> Record]
  <2>1. ASSUME NEW b \in 1..Len(s)
        PROVE  [no |-> b - 1, ok |-> s[b] = "new", formed |-> TRUE] \in Record
    <3>1. b - 1 \in Nat
      BY <1>1
    <3>2. (s[b] = "new") \in BOOLEAN
      OBVIOUS
    <3> QED
      BY <3>1, <3>2 DEF Record
  <2> QED
    BY <2>1, Zenon DEF Records
<1> QED
  BY <1>1, <1>2

LEMMA ReportTyped ==
    ASSUME NEW k \in Modules, DeviceKnown
    PROVE  /\ Response(k) \in Reports
           /\ Truncated(k) \subseteq Reports
           /\ Garbled(Response(k)) \subseteq Reports
<1>1. dev[k].scrap \in Seq(Contents) /\ dev[k].active \in Seq(Contents)
  BY DEF DeviceKnown, ModuleKnown
<1>2. Records(dev[k].scrap) \in Seq(Record) /\ Records(dev[k].active) \in Seq(Record)
  BY <1>1, RecordsTyped
<1>3. (dev[k].state = "empty") \in BOOLEAN
  OBVIOUS
<1>4. Response(k) \in Reports /\ Response(k).recs \in Seq(Record)
  BY <1>2, <1>3 DEF Response, Reports
<1>5. ASSUME NEW q \in Seq(Record) PROVE Prefixes(q) \subseteq Seq(Record)
  BY DEF Prefixes
<1>6. Truncated(k) \subseteq Reports
  <2>1. Prefixes(Response(k).recs) \subseteq Seq(Record) /\ Prefixes(Records(dev[k].active)) \subseteq Seq(Record)
    BY <1>2, <1>4, <1>5
  <2> QED
    BY <1>3, <2>1 DEF Truncated, Reports
<1>7. ASSUME NEW r \in Garbled(Response(k)) PROVE r \in Reports
  <2> DEFINE q == Response(k).recs
  <2>1. PICK i \in 1..Len(q) : r = [Response(k) EXCEPT !.recs[i].formed = FALSE]
    BY <1>7 DEF Garbled
  <2>2. Response(k) \in Reports /\ q \in Seq(Record)
    BY <1>4
  <2>3. r = [Response(k) EXCEPT !.recs = [q EXCEPT ![i].formed = FALSE]]
    BY <2>1, <2>2 DEF Reports
  <2>4. [q EXCEPT ![i].formed = FALSE] \in Seq(Record)
    <3> HIDE DEF q
    <3>1. q[i] \in Record
      BY <2>1, <2>2
    <3>2. [q[i] EXCEPT !.formed = FALSE] \in Record
      BY <3>1 DEF Record
    <3>3. q \in [1..Len(q) -> Record] /\ Len(q) \in Nat
      BY <2>2
    <3>4. [q EXCEPT ![i].formed = FALSE] \in [1..Len(q) -> Record]
      BY <3>2, <3>3
    <3> QED
      BY <3>3, <3>4
  <2> QED
    BY <2>2, <2>3, <2>4 DEF Reports
<1> QED
  BY <1>4, <1>6, <1>7

\* The steps of burning keep its types.
LEMMA NoInfoTyped == NoInfo \in Reports
BY DEF NoInfo, Reports

LEMMA HostTyped == ASSUME UpdateInv, BurningTyped, Host PROVE BurningTyped'
<1>1. m \in Modules /\ DeviceKnown /\ DOMAIN dev = Modules /\ dev[m].state \in States
  BY DEF UpdateInv, HostKnown, DeviceKnown, ModuleKnown
<1>2. CASE AskVersion
  BY <1>1, <1>2 DEF AskVersion, Answered, Throw, BurningTyped
<1>3. CASE AskInfo
  <2>1. info' \in Reports
    BY <1>1, <1>3, ReportTyped DEF AskInfo, BurningTyped
  <2> QED
    BY <1>3, <2>1 DEF AskInfo, Throw, BurningTyped
<1>4. CASE ParseRecord \/ ParseEnd
  BY <1>4, NoInfoTyped DEF ParseRecord, ParseEnd, Consumed, BurningTyped
<1>5. CASE Decide \/ Sent \/ Verify
  BY <1>5 DEF Decide, Sent, Verify, Throw, BurningTyped
<1>6. CASE InitModule
  <2>1. session' = (session \/ m = First(list)) /\ Answered("block") /\ UNCHANGED <<state, info>>
    BY <1>6 DEF InitModule
  <2> QED
    BY <2>1 DEF Answered, Throw, BurningTyped
<1>7. CASE SendBlock
  <2>1. UNCHANGED <<state, info, session>> /\ (ret' = ret \/ ret' = "Error")
    BY <1>7 DEF SendBlock, Answered, Throw
  <2> QED
    BY <2>1 DEF BurningTyped
<1>8. CASE Skip \/ Activate
  <2>1. UNCHANGED <<state, info>> /\ (session' = session \/ session' = FALSE) /\ ret' \in {ret, "Ok", "Error"}
    BY <1>8 DEF Skip, Activate, Finish, Answered, Throw
  <2> QED
    BY <2>1 DEF BurningTyped
<1> QED
  BY <1>2, <1>3, <1>4, <1>5, <1>6, <1>7, <1>8 DEF Host

LEMMA OutsideTyped ==
    ASSUME BurningTyped, Interrupt \/ Restart \/ OtherUpdate \/ Returned \/ UNCHANGED vars PROVE BurningTyped'
BY NoInfoTyped DEF BurningTyped, Interrupt, Restart, OtherUpdate, Returned, Throw, vars, hostVars, States

LEMMA CallTyped == ASSUME BurningTyped, NEW l, UpdateModules(l) PROVE BurningTyped'
BY NoInfoTyped DEF BurningTyped, UpdateModules, Begin

\* Main keeps its own.
LEMMA MainStart ==
    /\ NoArguments \in Arguments /\ NoMetadata \in Metadata /\ "NOT_ALLOWED" \in Policies
    /\ MinWait \in MinWait..MaxWait /\ MinWait \in Nat /\ MaxWait \in Nat
BY ToolAssumption DEF NoArguments, Arguments, NoMetadata, Metadata, Policies

LEMMA ContinueTyped ==
    ASSUME MainTyped, NEW s \in Over \cup {"redetect"}, Continue(s),
           unseen' \in BOOLEAN
    PROVE  MainTyped'
BY MainStart DEF MainTyped, Continue

LEMMA MainStep == ASSUME ToolInv, BurningTyped, MainTyped, Start \/ Tool PROVE MainTyped'
<1> USE DEF Over
<1>1. CASE Start
  <2>1. step' \in {"failed", "crashed", "file"} /\ UNCHANGED <<policy, waited>> /\ unseen' = FALSE
    BY <1>1 DEF Start
  <2>2. args' \in Arguments /\ meta' \in Metadata
    BY <1>1, MetadataFound DEF Start, DetectDevices, MainTyped
  <2> QED
    BY <2>1, <2>2 DEF MainTyped
<1>2. CASE CheckFile
  <2>1. unseen' = unseen
    BY <1>2 DEF CheckFile
  <2>2. CASE Continue("failed") \/ Continue("crashed")
    BY <2>1, <2>2, ContinueTyped DEF MainTyped
  <2>3. CASE /\ step' = "policy" /\ meta' = [meta EXCEPT !.serial = Unknown]
             /\ UNCHANGED <<args, policy, waited>>
    <3>1. meta' \in Metadata
      BY <2>3 DEF MainTyped, Metadata
    <3> QED
      BY <2>1, <2>3, <3>1 DEF MainTyped
  <2> QED
    BY <1>2, <2>2, <2>3 DEF CheckFile
<1>3. CASE ApplyPolicy
  <2>1. unseen' = unseen
    BY <1>3 DEF ApplyPolicy
  <2>2. CASE Continue("failed")
    BY <2>1, <2>2, ContinueTyped DEF MainTyped
  <2>3. CASE policy' \in {"CONTINOUS", "OPFW_FIRST"} /\ step' = "approve" /\ UNCHANGED <<args, meta, waited>>
    BY <2>1, <2>3 DEF MainTyped, Policies
  <2> QED
    BY <1>3, <2>2, <2>3 DEF ApplyPolicy
<1>4. CASE Refuse
  BY <1>4, ContinueTyped DEF Refuse, MainTyped
<1>5. CASE Approve
  <2>1. /\ step' = "burning" /\ meta' = NoMetadata /\ UNCHANGED <<policy, waited, unseen>>
        /\ args' = [NoArguments EXCEPT !.forceFull = args.forceFull]
    BY <1>5 DEF Approve, Forget
  <2>2. args' \in Arguments
    BY <2>1 DEF MainTyped, Arguments, NoArguments
  <2> QED
    BY <2>1, <2>2, MainStart DEF MainTyped
<1>6. CASE Burnt
  <2>1. unseen' = unseen
    BY <1>6 DEF Burnt, Returned
  <2>2. PICK s \in Over \cup {"redetect"} : Continue(s)
    BY <1>6 DEF Burnt
  <2> QED
    BY <2>1, <2>2, ContinueTyped DEF MainTyped
<1>7. CASE Redetect
  <2>1. UNCHANGED unseen /\ waited < MaxWait
    BY <1>7 DEF Redetect
  <2>2. CASE step' = "rest" /\ waited' = MinWait /\ UNCHANGED <<args, meta, policy>>
    BY <2>1, <2>2, MainStart DEF MainTyped
  <2>3. CASE waited' = waited + 1 /\ UNCHANGED <<step, args, meta, policy>>
    <3>1. waited' \in MinWait..MaxWait
      BY <2>1, <2>3, MainStart DEF MainTyped
    <3> QED
      BY <2>1, <2>3, <3>1 DEF MainTyped
  <2>4. CASE Continue("crashed")
    BY <2>1, <2>4, ContinueTyped DEF MainTyped
  <2> QED
    BY <1>7, <2>2, <2>3, <2>4 DEF Redetect
<1>8. CASE GiveUp
  BY <1>8, ContinueTyped DEF GiveUp, MainTyped
<1>9. CASE RestBurnt
  <2>1. unseen' = unseen
    BY <1>9 DEF RestBurnt, Returned
  <2>2. PICK s \in Over \cup {"redetect"} : Continue(s)
    BY <1>9 DEF RestBurnt
  <2> QED
    BY <2>1, <2>2, ContinueTyped DEF MainTyped
<1> QED
  BY <1>1, <1>2, <1>3, <1>4, <1>5, <1>6, <1>7, <1>8, <1>9 DEF Tool

LEMMA BurningTypedStep == ASSUME ToolInv, BurningTyped, [ToolNext]_allVars PROVE BurningTyped'
<1>1. CASE Host
  BY <1>1, HostTyped DEF ToolInv
<1>2. CASE \E l : UpdateModules(l)
  BY <1>2, CallTyped
<1>3. CASE Interrupt \/ Restart \/ OtherUpdate \/ Returned \/ UNCHANGED vars
  BY <1>3, OutsideTyped
<1> QED
  BY <1>1, <1>2, <1>3
     DEF ToolNext, Tool, Start, CheckFile, ApplyPolicy, Refuse, Approve, Burnt, Redetect, GiveUp, RestBurnt, allVars

\* Whatever the queries find, the user answers and the device does, the tool and the burning under it
\* stay within their types, and it burns only while the tool waits for it.
THEOREM ToolTypeCorrect == ToolSpec => []ToolTypeOK
<1> DEFINE Typed == ToolInv /\ BurningTyped /\ MainTyped
<1>1. ToolInit => Typed
  <2> SUFFICES ASSUME ToolInit PROVE Typed
    OBVIOUS
  <2>1. BurningTyped
    BY NoInfoTyped DEF ToolInit, Init, BurningTyped, States
  <2>2. MainTyped
    BY MainStart DEF ToolInit, MainTyped, Over
  <2> QED
    BY <2>1, <2>2, ToolInvInit
<1>2. Typed /\ [ToolNext]_allVars => Typed'
  <2> SUFFICES ASSUME Typed, [ToolNext]_allVars PROVE MainTyped'
    BY ToolInvStep, BurningTypedStep
  <2>1. CASE Start \/ Tool
    BY <2>1, MainStep
  <2>2. CASE UNCHANGED toolVars
    BY <2>2 DEF toolVars, MainTyped
  <2> QED
    BY <2>1, <2>2 DEF ToolNext, allVars
<1>3. Typed => ToolTypeOK
  <2> SUFFICES ASSUME Typed PROVE ToolTypeOK
    OBVIOUS
  <2>1. \A k \in Modules : /\ dev[k].state \in States
                           /\ dev[k].active \in Seq(Contents) /\ dev[k].scrap \in Seq(Contents)
    BY DEF ToolInv, UpdateInv, DeviceKnown, ModuleKnown
  <2>2. TypeOK
    BY <2>1 DEF ToolInv, UpdateInv, HostKnown, BurningTyped, TypeOK, States, Places, Reports
  <2> QED
    BY <2>2 DEF ToolInv, BurningKnown, MainTyped, ToolTypeOK
<1> QED
  BY <1>1, <1>2, <1>3, PTL DEF ToolSpec

-----------------------------------------------------------------------------
(* The firmware file: the table of blocks covers a module's bytes exactly,  *)
(* for every size and every block, page and word size.                      *)

LEMMA DivMod ==
    ASSUME NEW n \in Nat, NEW d \in Nat \ {0}
    PROVE  /\ n \div d \in Nat /\ n % d \in 0..(d - 1)
           /\ n = d * (n \div d) + (n % d)
  BY SMT

LEMMA Regroup ==
    ASSUME NEW a \in Nat, NEW b \in Nat, NEW c \in Nat
    PROVE  a * (b * c) = (a * c) * b /\ a * c \in Nat
  BY SMT

LEMMA SmallerFactor ==
    ASSUME NEW a \in Int, NEW b \in Int, NEW d \in Nat \ {0}, a * d < b * d
    PROVE  (a + 1) * d <= b * d
<1>1. a < b
  <2>1. SUFFICES ASSUME b <= a PROVE FALSE
    OBVIOUS
  <2>2. a - b \in Nat
    BY <2>1
  <2>3. (a - b) * d >= 0
    BY <2>2, SMT
  <2>4. (a - b) * d = a * d - b * d
    BY SMT
  <2> QED
    BY <2>3, <2>4, SMT
<1>2. b - (a + 1) \in Nat
  BY <1>1
<1>3. (b - (a + 1)) * d >= 0
  BY <1>2, SMT
<1>4. (b - (a + 1)) * d = b * d - (a + 1) * d
  BY SMT
<1> QED
  BY <1>3, <1>4, SMT

\* RoundUp gives the least multiple that is not smaller.
LEMMA RoundUpLeast ==
    ASSUME NEW n \in Nat, NEW d \in Nat \ {0}
    PROVE  /\ RoundUp(n, d) \in Nat
           /\ n <= RoundUp(n, d) /\ RoundUp(n, d) < n + d
           /\ \E q \in Nat : RoundUp(n, d) = q * d
<1> DEFINE s == n + d - 1
           q == s \div d
<1>1. s \in Nat
  OBVIOUS
<1>2. q \in Nat /\ s % d \in 0..(d - 1) /\ s = d * q + (s % d)
  BY <1>1, DivMod
<1>3. RoundUp(n, d) = q * d
  BY DEF RoundUp
<1>4. q * d = d * q /\ d * q \in Nat
  BY <1>2, SMT
<1>5. q * d = s - (s % d)
  BY <1>1, <1>2, <1>4
<1>6. n <= q * d /\ q * d < n + d
  <2> HIDE DEF q
  <2> QED
    BY <1>2, <1>5
<1>7. \E k \in Nat : RoundUp(n, d) = k * d
  BY <1>2, <1>3
<1> QED
  BY <1>3, <1>4, <1>6, <1>7

LEMMA Sizes ==
    ASSUME NEW size \in Nat
    PROVE  /\ AlignedSize(size) \in Nat /\ CrcSize(size) \in Nat /\ NBlocks(size) \in Nat
           /\ size <= CrcSize(size) /\ CrcSize(size) <= AlignedSize(size)
           /\ AlignedSize(size) < size + PageSize
           /\ AlignedSize(size) <= NBlocks(size) * BlockSize
           /\ NBlocks(size) # 0 => (NBlocks(size) - 1) * BlockSize < AlignedSize(size)
<1> USE FileAssumption
<1> DEFINE al == AlignedSize(size)
           cr == CrcSize(size)
           nb == NBlocks(size)
<1>1. /\ al \in Nat /\ size <= al /\ al < size + PageSize
      /\ \E q \in Nat : al = q * PageSize
  BY RoundUpLeast DEF AlignedSize
<1>2. /\ cr \in Nat /\ size <= cr /\ cr < size + Word
      /\ \E q \in Nat : cr = q * Word
  BY RoundUpLeast DEF CrcSize
<1>3. cr <= al
  <2>1. PICK q \in Nat : cr = q * Word
    BY <1>2
  <2>2. PICK r \in Nat : al = r * PageSize
    BY <1>1
  <2>3. PageSize = Word * (PageSize \div Word) /\ PageSize \div Word \in Nat
    BY DivMod
  <2> DEFINE w == PageSize \div Word
  <2>4. al = (r * w) * Word /\ r * w \in Nat
    BY <2>2, <2>3, Regroup
  <2> HIDE DEF al, cr, w
  <2>5. SUFFICES ASSUME al < cr PROVE FALSE
    BY <1>1, <1>2
  <2>6. (r * w + 1) * Word <= q * Word
    BY <2>1, <2>4, <2>5, SmallerFactor
  <2>7. (r * w + 1) * Word = al + Word
    BY <2>4, SMT
  <2> QED
    BY <1>1, <1>2, <2>1, <2>6, <2>7
<1>4. /\ nb \in Nat /\ al <= nb * BlockSize
      /\ nb # 0 => (nb - 1) * BlockSize < al
  <2> DEFINE d == al \div BlockSize
             e == al % BlockSize
  <2>1. /\ d \in Nat /\ e \in 0..(BlockSize - 1) /\ al = BlockSize * d + e
    BY <1>1, DivMod
  <2>2. nb = d + (IF e = 0 THEN 0 ELSE 1)
    BY DEF NBlocks
  <2> HIDE DEF al, nb, d, e
  <2>3. BlockSize * d = d * BlockSize /\ d * BlockSize \in Nat
    BY <2>1, SMT
  <2>4. (d + 1) * BlockSize = d * BlockSize + BlockSize
    BY <2>1, SMT
  <2>5. (d - 1) * BlockSize = d * BlockSize - BlockSize
    BY <2>1, SMT
  <2>6. CASE e = 0
    BY <2>1, <2>2, <2>3, <2>5, <2>6
  <2>7. CASE e # 0
    <3>1. nb = d + 1 /\ nb - 1 = d
      BY <2>1, <2>2, <2>7
    <3> QED
      BY <2>1, <2>3, <2>4, <2>7, <3>1
  <2> QED
    BY <2>6, <2>7
<1> QED
  BY <1>1, <1>2, <1>3, <1>4

\* Below the last block there is a page's worth of bytes, so that the last one is not empty.
LEMMA LastBegins ==
    ASSUME NEW size \in Nat, NBlocks(size) # 0
    PROVE  (NBlocks(size) - 1) * BlockSize < CrcSize(size)
<1> USE FileAssumption
<1> DEFINE k == NBlocks(size) - 1
           b == BlockSize \div PageSize
<1>1. k \in Nat /\ k * BlockSize < AlignedSize(size) /\ AlignedSize(size) < size + PageSize
      /\ AlignedSize(size) \in Nat /\ CrcSize(size) \in Nat /\ size <= CrcSize(size)
  BY Sizes
<1>2. BlockSize = PageSize * b /\ b \in Nat
  <2>1. /\ BlockSize \div PageSize \in Nat
        /\ BlockSize = PageSize * (BlockSize \div PageSize) + (BlockSize % PageSize)
    BY DivMod
  <2>2. BlockSize % PageSize = 0
    OBVIOUS
  <2> HIDE DEF b
  <2>3. PageSize * b \in Nat
    BY <2>1, SMT DEF b
  <2> QED
    BY <2>1, <2>2, <2>3 DEF b
<1>3. PICK q \in Nat : AlignedSize(size) = q * PageSize
  BY RoundUpLeast DEF AlignedSize
<1> HIDE DEF k, b
<1>4. k * BlockSize = (k * b) * PageSize /\ k * b \in Nat
  BY <1>1, <1>2, Regroup
<1>5. (k * b + 1) * PageSize <= q * PageSize
  <2>1. (k * b) * PageSize < q * PageSize
    BY <1>1, <1>3, <1>4
  <2> QED
    BY <1>4, <2>1, SmallerFactor
<1>6. (k * b + 1) * PageSize = k * BlockSize + PageSize
  BY <1>4, SMT
<1>7. k * BlockSize + PageSize <= AlignedSize(size) /\ k * BlockSize \in Nat
  BY <1>3, <1>4, <1>5, <1>6
<1>8. k * BlockSize < CrcSize(size)
  BY <1>1, <1>7
<1> QED
  BY <1>8 DEF k

\* The lower of two whole numbers is one of them.
LEMMA LowerIs ==
    ASSUME NEW a \in Int, NEW b \in Int
    PROVE  (a < b => Lower(a, b) = a) /\ (~(a < b) => Lower(a, b) = b)
BY DEF Lower

\* ParseUfifToModules: the blocks of a module begin where the one before ends, none is empty or
\* longer than a block, the last one ends with the bytes that the checksum covers, and all of
\* them lie in the module's buffer.
THEOREM BlocksCoverModule ==
    ASSUME NEW size \in Nat
    PROVE  LET t == BlockTable(size) IN
           /\ size <= CrcSize(size) /\ CrcSize(size) <= AlignedSize(size)
           /\ (size = 0) <=> (Len(t) = 0)
           /\ size # 0 => t[1].offset = 0
           /\ \A i \in 1..Len(t) : t[i].size \in 1..BlockSize
           /\ \A i \in 1..(Len(t) - 1) :
                 t[i].size = BlockSize /\ t[i + 1].offset = t[i].offset + t[i].size
           /\ size # 0 => t[Len(t)].offset + t[Len(t)].size = CrcSize(size)
<1> USE FileAssumption
<1> DEFINE n == NBlocks(size)
           c == CrcSize(size)
           t == BlockTable(size)
<1>1. /\ AlignedSize(size) \in Nat /\ c \in Nat /\ n \in Nat
      /\ size <= c /\ c <= AlignedSize(size) /\ AlignedSize(size) <= n * BlockSize
      /\ n # 0 => (n - 1) * BlockSize < AlignedSize(size)
  BY Sizes
<1>2. n # 0 => (n - 1) * BlockSize < c
  BY LastBegins
<1>3. /\ DOMAIN t = 1..n
      /\ \A i \in 1..n : /\ t[i].offset = (i - 1) * BlockSize
                         /\ t[i].size = Lower(c - (i - 1) * BlockSize, BlockSize)
  BY DEF BlockTable
<1>4. Len(t) = n
  BY <1>1 DEF BlockTable
<1> HIDE DEF n, c, t
<1>5. size = 0 <=> n = 0
  <2>1. CASE size = 0
    <3>1. AlignedSize(0) = 0
      <4>1. RoundUp(0, PageSize) \in Nat /\ RoundUp(0, PageSize) < 0 + PageSize
            /\ \E q \in Nat : RoundUp(0, PageSize) = q * PageSize
        BY RoundUpLeast
      <4>2. PICK q \in Nat : RoundUp(0, PageSize) = q * PageSize
        BY <4>1
      <4>3. SUFFICES ASSUME q # 0 PROVE FALSE
        BY <4>2, SMT DEF AlignedSize
      <4>4. 0 * PageSize < q * PageSize
        <5>1. q * PageSize > 0
          BY <4>3, SMT
        <5> QED
          BY <5>1, SMT
      <4>5. (0 + 1) * PageSize <= q * PageSize
        BY <4>4, SmallerFactor
      <4> QED
        BY <4>1, <4>2, <4>5
    <3>2. 0 \div BlockSize = 0 /\ 0 % BlockSize = 0
      BY SMT
    <3>3. NBlocks(0) = 0
      BY <3>1, <3>2 DEF NBlocks
    <3> QED
      BY <2>1, <3>3 DEF n
  <2>2. CASE n = 0
    <3>1. AlignedSize(size) <= 0
      BY <1>1, <2>2
    <3> QED
      BY <1>1, <2>2, <3>1
  <2> QED
    BY <2>1, <2>2
<1>6. \A i \in 1..n : i < n => i * BlockSize < c
  <2> SUFFICES ASSUME NEW i \in 1..n, i < n PROVE i * BlockSize < c
    OBVIOUS
  <2>1. (n - 1) - i \in Nat
    BY <1>1
  <2>2. ((n - 1) - i) * BlockSize >= 0
    BY <2>1, SMT
  <2>3. ((n - 1) - i) * BlockSize = (n - 1) * BlockSize - i * BlockSize
    BY <1>1, SMT
  <2>4. i * BlockSize \in Int /\ (n - 1) * BlockSize \in Int
    BY <1>1, SMT
  <2> QED
    BY <1>1, <1>2, <2>2, <2>3, <2>4
<1>7. \A i \in 1..n : (i - 1) * BlockSize + BlockSize = i * BlockSize /\ i * BlockSize \in Int
                      /\ (i - 1) * BlockSize \in Int
  BY <1>1, SMT
<1>8. \A i \in 1..n : t[i].size \in 1..BlockSize
  <2> SUFFICES ASSUME NEW i \in 1..n PROVE t[i].size \in 1..BlockSize
    OBVIOUS
  <2>1. (i - 1) * BlockSize < c
    <3>1. CASE i < n
      BY <1>1, <1>6, <1>7, <3>1
    <3>2. CASE i = n
      BY <1>2, <3>2
    <3> QED
      BY <1>1, <3>1, <3>2
  <2> DEFINE o == (i - 1) * BlockSize
  <2>2. t[i].size = Lower(c - o, BlockSize)
    BY <1>3
  <2>3. o \in Int /\ o < c
    BY <1>7, <2>1
  <2> HIDE DEF o
  <2>4. c - o \in Int /\ c - o >= 1
    BY <1>1, <2>3
  <2>5. BlockSize \in Int /\ BlockSize >= 1
    OBVIOUS
  <2>6. /\ c - o < BlockSize => Lower(c - o, BlockSize) = c - o
        /\ ~(c - o < BlockSize) => Lower(c - o, BlockSize) = BlockSize
    BY <2>4, <2>5, LowerIs
  <2> QED
    BY <2>2, <2>4, <2>5, <2>6
<1>9. \A i \in 1..(n - 1) : t[i].size = BlockSize /\ t[i + 1].offset = t[i].offset + t[i].size
  <2> SUFFICES ASSUME NEW i \in 1..(n - 1)
               PROVE  t[i].size = BlockSize /\ t[i + 1].offset = t[i].offset + t[i].size
    OBVIOUS
  <2>1. i \in 1..n /\ i + 1 \in 1..n /\ i < n
    BY <1>1
  <2>2. t[i].size = BlockSize
    <3> DEFINE o == (i - 1) * BlockSize
    <3>1. t[i].size = Lower(c - o, BlockSize)
      BY <1>3, <2>1
    <3>2. o \in Int /\ o + BlockSize < c
      <4>1. i * BlockSize < c
        BY <1>6, <2>1
      <4>2. o + BlockSize = i * BlockSize /\ o \in Int
        BY <1>7, <2>1
      <4> QED
        BY <4>1, <4>2
    <3> HIDE DEF o
    <3>3. BlockSize \in Int
      OBVIOUS
    <3>4. c - o \in Int /\ ~(c - o < BlockSize)
      BY <1>1, <3>2, <3>3
    <3>5. Lower(c - o, BlockSize) = BlockSize
      BY <3>3, <3>4, LowerIs
    <3> QED
      BY <3>1, <3>5
  <2>3. t[i + 1].offset = i * BlockSize
    BY <1>3, <2>1
  <2> QED
    BY <1>3, <1>7, <2>1, <2>2, <2>3
<1>10. size # 0 => t[n].offset + t[n].size = c
  <2> SUFFICES ASSUME size # 0 PROVE t[n].offset + t[n].size = c
    OBVIOUS
  <2>1. n \in 1..n
    BY <1>1, <1>5
  <2>2. c <= n * BlockSize
    BY <1>1, <1>7, <2>1
  <2> DEFINE o == (n - 1) * BlockSize
  <2>3. t[n].offset = o /\ t[n].size = Lower(c - o, BlockSize)
    BY <1>3, <2>1
  <2>4. o \in Int /\ c <= o + BlockSize
    BY <1>7, <2>1, <2>2
  <2> HIDE DEF o
  <2>5. BlockSize \in Int /\ c - o \in Int /\ c - o <= BlockSize
    BY <1>1, <2>4
  <2>6. Lower(c - o, BlockSize) = c - o
    BY <2>5 DEF Lower
  <2>7. o + (c - o) = c
    BY <1>1, <2>4
  <2> QED
    BY <2>3, <2>6, <2>7
<1>11. size # 0 => t[1].offset = 0
  <2> SUFFICES ASSUME size # 0 PROVE t[1].offset = 0
    OBVIOUS
  <2>1. 1 \in 1..n
    BY <1>1, <1>5
  <2>2. t[1].offset = (1 - 1) * BlockSize
    BY <1>3, <2>1
  <2> QED
    BY <2>2, SMT
<1> QED
  BY <1>1, <1>4, <1>5, <1>8, <1>9, <1>10, <1>11 DEF n, c, t

=============================================================================
