------------------------------- MODULE Eeprom -------------------------------
(***************************************************************************)
(* EEPROM emulation on two pages of internal flash                         *)
(* (core-firmware/src/spark_wiring_eeprom.cpp).                            *)
(*                                                                         *)
(* A page is a header half-word followed by slots of two half-words, data  *)
(* then address, filled from the bottom and searched from the top.  When   *)
(* the page is full its live variables move to the other page.  Power may  *)
(* be lost between any two flash operations; the constructor of the EEPROM *)
(* object then runs EEPROM_Init.  One step is one flash operation, or one  *)
(* decision taken between two of them.                                     *)
(***************************************************************************)
EXTENDS Integers, FiniteSets, FiniteSetsExt

CONSTANTS
  Size,     \* EEPROM_SIZE, the number of variables
  Slots,    \* slots of a page behind the header slot
  Values,   \* the bytes a variable can hold
  Blank,    \* 0xFFFF, an erased half-word
  MaxLoss,  \* bound: power losses
  MaxFail   \* bound: flash operations that report an error

ASSUME SizeAssumption  == Size \in Nat \ {0}
ASSUME SlotsAssumption == Slots \in Nat /\ Slots >= Size
ASSUME BlankAssumption == Blank \notin Values /\ Blank \notin Int
ASSUME BoundAssumption == MaxLoss \in Nat /\ MaxFail \in Nat

VARIABLES
  head,      \* header of each page
  slot,      \* slots of each page
  pc,        \* the flash operation, or decision, that comes next
  job,       \* the function on the stack
  arg,       \* arguments of EEPROM_WriteVariable
  cur,       \* arguments of EEPROM_VerifyPageFullWriteVariable
  at,        \* slot whose data half-word has just been programmed
  page,      \* page to erase, to mark, or to receive data
  idx,       \* EepromAddressIdx; -1 while the caller's variable moves
  tabReady,  \* EepromAddressTab holds the identity, not zeros
  may,       \* history: what a read of a variable is allowed to return
  kept,      \* history: no power loss hit two programmed pages
  losses,    \* power losses so far
  fails      \* flash errors so far

flash == <<head, slot>>
ram   == <<pc, job, arg, cur, at, page, idx, tabReady>>
vars  == <<flash, ram, may, kept, losses, fails>>

Pages   == {0, 1}
Vars    == 0 .. Size - 1
Heads   == {"ERASED", "RECEIVE_DATA", "VALID_PAGE"}
NoPage  == 2                                  \* NO_VALID_PAGE
Empty   == [data |-> Blank, addr |-> Blank]   \* 0xFFFFFFFF
Cell    == [data : Values \cup {Blank}, addr : Vars \cup {Blank}]
Entry   == [var : Vars, val : Values \cup {Blank}]
NoEntry == [var |-> 0, val |-> Blank]
Jobs    == {"init", "none", "write", "transfer", "recover"}
Labels  == {"boot", "idle", "data", "addr", "mark", "next", "erase", "valid",
            "tidyErase", "tidyValid", "fmtErase0", "fmtValid", "fmtErase1"}

Other(p)      == 1 - p
BlankPage     == [i \in 1 .. Slots |-> Empty]
Tab(i)        == IF tabReady THEN i ELSE 0   \* EepromAddressTab[i]

-----------------------------------------------------------------------------
(* Reading *)

ReadPage == IF head[0] = "VALID_PAGE" THEN 0
            ELSE IF head[1] = "VALID_PAGE" THEN 1 ELSE NoPage

WritePage ==
  IF head[1] = "VALID_PAGE" THEN (IF head[0] = "RECEIVE_DATA" THEN 0 ELSE 1)
  ELSE IF head[0] = "VALID_PAGE"
         THEN (IF head[1] = "RECEIVE_DATA" THEN 1 ELSE 0)
         ELSE NoPage

Hits(p, a) == {i \in 1 .. Slots : slot[p][i].addr = a}

\* The data of the topmost slot with address a.
Lookup(p, a) == IF Hits(p, a) = {} THEN Blank
                ELSE slot[p][CHOOSE i \in Hits(p, a) :
                                \A j \in Hits(p, a) : j <= i].data

\* EEPROMClass::read returns 0xFF both for a missing variable and for no page.
Read(a) == IF ReadPage = NoPage THEN Blank ELSE Lookup(ReadPage, a)

Free(p) == {i \in 1 .. Slots : slot[p][i] = Empty}

FirstFree(p) == CHOOSE i \in Free(p) : \A j \in Free(p) : i <= j

-----------------------------------------------------------------------------
Init ==
  /\ head = [p \in Pages |-> "ERASED"]
  /\ slot = [p \in Pages |-> BlankPage]
  /\ pc = "boot" /\ job = "init"
  /\ arg = NoEntry /\ cur = NoEntry
  /\ at = 0 /\ page = 0 /\ idx = 0 /\ tabReady = FALSE
  /\ may = [a \in Vars |-> {Blank}]
  /\ kept = TRUE /\ losses = 0 /\ fails = 0

NoLocals == arg' = NoEntry /\ cur' = NoEntry /\ at' = 0 /\ page' = 0 /\ idx' = 0

\* The function on the stack returns; EEPROMClass's constructor then fills the
\* address table whatever EEPROM_Init answered.
Return ==
  /\ pc' = "idle" /\ job' = "none" /\ tabReady' = TRUE /\ NoLocals

ReturnComplete ==
  /\ Return
  /\ may' = IF job \in {"write", "transfer"}
              THEN [may EXCEPT ![arg.var] = {arg.val}] ELSE may

GoTo(l) == pc' = l /\ UNCHANGED <<job, arg, cur, at, page, idx, tabReady, may>>

Erase(p) ==
  /\ head' = [head EXCEPT ![p] = "ERASED"]
  /\ slot' = [slot EXCEPT ![p] = BlankPage]

Mark(p, h) == head' = [head EXCEPT ![p] = h] /\ UNCHANGED slot

Sober == UNCHANGED <<kept, losses, fails>>

-----------------------------------------------------------------------------
(* EEPROM_Init: the switch on the two headers *)

BootOneErased(p) ==
  /\ pc = "boot" /\ head[p] = "ERASED" /\ head[Other(p)] # "ERASED"
  /\ pc' = "tidyErase" /\ page' = p
  /\ UNCHANGED <<flash, job, arg, cur, at, idx, tabReady, may>> /\ Sober

BootRecover(p) ==
  /\ pc = "boot" /\ head[p] = "RECEIVE_DATA" /\ head[Other(p)] = "VALID_PAGE"
  /\ pc' = "next" /\ job' = "recover" /\ page' = p /\ idx' = 0
  /\ UNCHANGED <<flash, arg, cur, at, tabReady, may>> /\ Sober

BootFormat ==
  /\ pc = "boot" /\ head[0] = head[1]
  /\ GoTo("fmtErase0") /\ UNCHANGED flash /\ Sober

\* Mutants: the pages of an interrupted transfer are formatted; a received page
\* is left unmarked.
BugTidyFormats ==
  /\ pc = "tidyErase" /\ Erase(page)
  /\ IF head[Other(page)] = "VALID_PAGE" THEN ReturnComplete
                                         ELSE GoTo("fmtErase0")
  /\ Sober

BugTidyUnmarked == pc = "tidyErase" /\ Erase(page) /\ ReturnComplete /\ Sober

\* An ERASED page is erased again: the last erase may have been cut short.
TidyErase ==
  /\ pc = "tidyErase" /\ Erase(page)
  /\ IF head[Other(page)] = "VALID_PAGE" THEN ReturnComplete
                                         ELSE GoTo("tidyValid")
  /\ Sober

TidyValid ==
  /\ pc = "tidyValid" /\ Mark(Other(page), "VALID_PAGE")
  /\ ReturnComplete /\ Sober

FormatErase0 ==
  /\ pc = "fmtErase0" /\ Erase(0) /\ GoTo("fmtValid") /\ Sober

FormatValid0 ==
  /\ pc = "fmtValid" /\ Mark(0, "VALID_PAGE") /\ GoTo("fmtErase1") /\ Sober

FormatErase1 ==
  /\ pc = "fmtErase1" /\ Erase(1) /\ ReturnComplete /\ Sober

-----------------------------------------------------------------------------
(* EEPROM_WriteVariable and EEPROM_VerifyPageFullWriteVariable *)

Write(a, v) ==
  /\ pc = "idle"
  /\ arg' = [var |-> a, val |-> v] /\ cur' = arg'
  /\ pc' = "data" /\ job' = "write"
  /\ may' = [may EXCEPT ![a] = @ \cup {v}]
  /\ UNCHANGED <<flash, at, page, idx, tabReady>> /\ Sober

ProgramData ==
  /\ pc = "data" /\ WritePage # NoPage /\ Free(WritePage) # {}
  /\ slot' = [slot EXCEPT ![WritePage][FirstFree(WritePage)].data = cur.val]
  /\ at' = FirstFree(WritePage)
  /\ pc' = "addr"
  /\ UNCHANGED <<head, job, arg, cur, page, idx, tabReady, may>> /\ Sober

ProgramAddress ==
  /\ pc = "addr"
  /\ slot' = [slot EXCEPT ![WritePage][at].addr = cur.var]
  /\ UNCHANGED head
  /\ \/ job = "write" /\ ReturnComplete
     \/ /\ job # "write"
        /\ pc' = "next" /\ idx' = idx + 1
        /\ UNCHANGED <<job, arg, cur, at, page, tabReady, may>>
  /\ Sober

StoreNoPage ==
  /\ pc = "data" /\ WritePage = NoPage
  /\ Return /\ UNCHANGED <<flash, may>> /\ Sober

\* PAGE_FULL: EEPROM_WriteVariable turns to EEPROM_PageTransfer, which picks
\* the page that does not hold the data; the transfer itself gives up.
StorePageFull ==
  /\ pc = "data" /\ WritePage # NoPage /\ Free(WritePage) = {}
  /\ \/ /\ job = "write"
        /\ pc' = "mark" /\ job' = "transfer" /\ page' = Other(ReadPage)
        /\ UNCHANGED <<arg, cur, at, idx, tabReady>>
     \/ job # "write" /\ Return
  /\ UNCHANGED <<flash, may>> /\ Sober

-----------------------------------------------------------------------------
(* EEPROM_PageTransfer, and the copy loops of EEPROM_Init *)

\* Flash hardware programs a half-word that is not blank only to 0x0000.
MarkReceive ==
  /\ pc = "mark" /\ head[page] = "ERASED"
  /\ Mark(page, "RECEIVE_DATA")
  /\ pc' = "data" /\ idx' = -1
  /\ UNCHANGED <<job, arg, cur, at, page, tabReady, may>> /\ Sober

MarkRefused ==
  /\ pc = "mark" /\ head[page] # "ERASED"
  /\ Return /\ UNCHANGED <<flash, may>> /\ Sober

\* Mutant: a transfer copies the old value of the variable being written, too.
BugSkipNothing(i) == job = "recover" /\ slot[page][1].addr = Tab(i)

\* The transfer leaves out the variable it was called for; the recovery leaves
\* out the one in the first slot of the receiving page.
Skip(i) == IF job = "transfer" THEN Tab(i) = arg.var
                               ELSE slot[page][1].addr = Tab(i)

\* Mutants: the loop runs one variable too far; it does not step over a
\* variable it leaves out.
BugNextTooFar ==
  /\ pc = "next" /\ idx <= Size
  /\ IF Skip(idx) \/ Read(Tab(idx)) = Blank
       THEN idx' = idx + 1 /\ UNCHANGED <<pc, cur>>
       ELSE /\ cur' = [var |-> Tab(idx), val |-> Read(Tab(idx))]
            /\ pc' = "data" /\ UNCHANGED idx
  /\ UNCHANGED <<flash, job, arg, at, page, tabReady, may>> /\ Sober

BugNextStays ==
  /\ pc = "next" /\ idx < Size /\ ~Skip(idx) /\ Read(Tab(idx)) # Blank
  /\ cur' = [var |-> Tab(idx), val |-> Read(Tab(idx))]
  /\ pc' = "data"
  /\ UNCHANGED <<flash, job, arg, at, page, idx, tabReady, may>> /\ Sober

NextVariable ==
  /\ pc = "next" /\ idx < Size
  /\ IF Skip(idx) \/ Read(Tab(idx)) = Blank
       THEN idx' = idx + 1 /\ UNCHANGED <<pc, cur>>
       ELSE /\ cur' = [var |-> Tab(idx), val |-> Read(Tab(idx))]
            /\ pc' = "data" /\ UNCHANGED idx
  /\ UNCHANGED <<flash, job, arg, at, page, tabReady, may>> /\ Sober

\* Mutant: the loop stops one variable early.
BugCopiesShort ==
  /\ pc = "next" /\ idx = Size - 1
  /\ GoTo(IF job = "transfer" THEN "erase" ELSE "valid")
  /\ UNCHANGED flash /\ Sober

\* The transfer erases the old page first, the recovery marks the new one first.
CopiesDone ==
  /\ pc = "next" /\ idx = Size
  /\ GoTo(IF job = "transfer" THEN "erase" ELSE "valid")
  /\ UNCHANGED flash /\ Sober

\* Mutant: a recovery leaves the old page as it is.
BugEraseOldForgets ==
  /\ pc = "erase"
  /\ IF job = "transfer" THEN Erase(Other(page)) /\ GoTo("valid")
                         ELSE UNCHANGED flash /\ ReturnComplete
  /\ Sober

EraseOld ==
  /\ pc = "erase" /\ Erase(Other(page))
  /\ IF job = "transfer" THEN GoTo("valid") ELSE ReturnComplete
  /\ Sober

MarkValid ==
  /\ pc = "valid" /\ Mark(page, "VALID_PAGE")
  /\ IF job = "transfer" THEN ReturnComplete ELSE GoTo("erase")
  /\ Sober

-----------------------------------------------------------------------------
(* The environment: flash errors and power losses *)

Erasing == CASE pc = "tidyErase"     -> page
             [] pc = "erase"         -> Other(page)
             [] pc = "fmtErase0"     -> 0
             [] pc = "fmtErase1"     -> 1
             [] OTHER                -> NoPage

Programming == \/ pc \in {"addr", "mark", "valid", "tidyValid", "fmtValid"}
               \/ pc = "data" /\ WritePage # NoPage /\ Free(WritePage) # {}

\* A flash operation reports an error; every caller passes it on at once.
FlashError ==
  /\ fails < MaxFail /\ fails' = fails + 1
  /\ Programming \/ Erasing # NoPage
  /\ Return /\ UNCHANGED <<flash, may, kept, losses>>

\* RAM is gone.  An erase that is cut short has wiped the header at most.
PowerLoss ==
  /\ losses < MaxLoss /\ losses' = losses + 1
  /\ UNCHANGED <<slot, may, fails>> /\ NoLocals
  /\ \/ UNCHANGED head
     \/ Erasing # NoPage /\ head' = [head EXCEPT ![Erasing] = "ERASED"]
  /\ pc' = "boot" /\ job' = "init" /\ tabReady' = FALSE
  /\ kept' = (kept /\ \E p \in Pages : head'[p] = "ERASED")

-----------------------------------------------------------------------------
Firmware ==
  \/ \E p \in Pages : BootOneErased(p) \/ BootRecover(p)
  \/ BootFormat \/ TidyErase \/ TidyValid
  \/ FormatErase0 \/ FormatValid0 \/ FormatErase1
  \/ ProgramData \/ ProgramAddress \/ StoreNoPage \/ StorePageFull
  \/ MarkReceive \/ MarkRefused \/ NextVariable \/ CopiesDone
  \/ EraseOld \/ MarkValid

Sketch == \E a \in Vars, v \in Values : Write(a, v)

Next == Firmware \/ Sketch \/ FlashError \/ PowerLoss

Spec == Init /\ [][Next]_vars

\* The processor keeps executing a function it has entered.
FairSpec == Spec /\ WF_vars(Firmware)

-----------------------------------------------------------------------------
(* Properties *)

TypeOK ==
  /\ head \in [Pages -> Heads]
  /\ slot \in [Pages -> [1 .. Slots -> Cell]]
  /\ pc \in Labels /\ job \in Jobs
  /\ arg \in Entry /\ cur \in Entry
  /\ at \in 0 .. Slots /\ page \in Pages /\ idx \in -1 .. Size
  /\ tabReady \in BOOLEAN
  /\ may \in [Vars -> SUBSET (Values \cup {Blank})]
  /\ kept \in BOOLEAN
  /\ losses \in 0 .. MaxLoss /\ fails \in 0 .. MaxFail

\* EEPROM_ReadVariable "returns the last stored variable data" (line 259): what
\* the sketch reads is what the last completed write of the variable stored, or
\* what a write that did not complete tried to store.
ReadLastStored == pc = "idle" => \A a \in Vars : Read(a) \in may[a]

\* Unless a flash operation fails, every completed write survives any power loss
\* that does not hit the pages while both are programmed: a torn slot is skipped, a page whose erase was cut
\* short is erased again, a finished transfer is only marked valid.
DurableUnlessTransferHit ==
  pc = "idle" /\ kept /\ fails = 0 => \A a \in Vars : Read(a) \in may[a]

\* A power loss, wherever it strikes, may lose a variable but never brings back
\* a value that a later completed write had replaced (a flash error may).
NoStaleValue ==
  pc = "idle" /\ fails = 0 => \A a \in Vars : Read(a) \in may[a] \cup {Blank}

\* Without flash errors there is a page to read and a page to write to whenever
\* the sketch runs, and a recovery in doubt keeps the page with the data.
ReadableWhenIdle == pc = "idle" /\ fails = 0 => ReadPage # NoPage

\* The old page goes only after every variable it holds reads the same from the
\* receiving page, and the variable being written reads the new value, errors and
\* earlier power losses notwithstanding.
OnlyCopyNeverErased ==
  [][pc = "erase" /\ job = "transfer" /\ head' # head /\ pc' = "valid" =>
       \A a \in Vars :
         IF a = arg.var
           THEN Lookup(page, a) = arg.val
           ELSE Lookup(Other(page), a) # Blank =>
                  Lookup(page, a) = Lookup(Other(page), a)]_vars

GoodState == \E p \in Pages : head[p] = "VALID_PAGE" /\ head[Other(p)] = "ERASED"

\* EEPROM_Init "restores the pages to a known good state" (line 43): when it
\* returns without a flash error, one page is valid and the other is erased.
InitRestoresPages ==
  [][(job = "init" \/ job = "recover") /\ pc' = "idle" /\ fails' = fails =>
       GoodState']_vars

\* Every call returns: the copy loops end, a transfer is never re-entered.
CallsReturn == (pc # "idle") ~> (pc = "idle")

\* The page the map is read from: between the erase of the old page and the
\* mark of the new one, the new one.
ActivePage == IF ReadPage # NoPage THEN ReadPage
              ELSE IF head[1] = "RECEIVE_DATA" THEN 1 ELSE 0

Contents == [a \in Vars |-> Lookup(ActivePage, a)]

Calling == IF job \in {"write", "transfer"} THEN <<arg.var, arg.val>> ELSE <<>>

Store == INSTANCE EepromStore
           WITH mem <- Contents, call <- Calling, NoCall <- <<>>,
                Addresses <- Vars, Bytes <- Values, Erased <- Blank

\* Without faults the two pages implement a map whose writes are atomic: a page
\* transfer is invisible but for the variable being written.
ImplementsStore == Store!Spec
=============================================================================
