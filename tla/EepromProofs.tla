---------------------------- MODULE EepromProofs ----------------------------
(***************************************************************************)
(* Theorems about Eeprom, for any number of variables, slots, power losses *)
(* and flash errors.                                                       *)
(***************************************************************************)
EXTENDS Eeprom, WellFoundedInduction, TLAPS

USE SizeAssumption, SlotsAssumption, BlankAssumption, BoundAssumption

\* A variable, the entry of no call and an erased page are what they should be.
LEMMA Basics ==
  /\ 0 \in Vars /\ NoEntry \in Entry /\ Empty \in Cell
  /\ BlankPage \in [1 .. Slots -> Cell]
<1>1. 0 \in Vars
  BY DEF Vars
<1>2. Empty \in Cell
  BY DEF Empty, Cell
<1>3. QED
  BY <1>1, <1>2 DEF NoEntry, Entry, BlankPage

LEMMA InitType == Init => TypeOK
<1> SUFFICES ASSUME Init PROVE TypeOK
  OBVIOUS
<1>1. head \in [Pages -> Heads] /\ slot \in [Pages -> [1 .. Slots -> Cell]]
  BY Basics DEF Init, Heads
<1>2. pc \in Labels /\ job \in Jobs /\ tabReady \in BOOLEAN /\ kept \in BOOLEAN
  BY DEF Init, Labels, Jobs
<1>3. arg \in Entry /\ cur \in Entry
  BY Basics DEF Init
<1>4. /\ at \in 0 .. Slots /\ page \in Pages /\ idx \in -1 .. Size
      /\ losses \in 0 .. MaxLoss /\ fails \in 0 .. MaxFail
  BY DEF Init, Pages
<1>5. may \in [Vars -> SUBSET (Values \cup {Blank})]
  BY DEF Init
<1>6. QED
  BY <1>1, <1>2, <1>3, <1>4, <1>5 DEF TypeOK

-----------------------------------------------------------------------------
(* The first and the last slot with a property exist. *)

LessThan == {ss \in Nat \X Nat : ss[1] < ss[2]}

LEMMA LeastSlot ==
  ASSUME NEW S \in SUBSET (1 .. Slots), S # {}
  PROVE  \E i \in S : \A j \in S : i <= j
<1>1. S \subseteq Nat
  OBVIOUS
<1>2. IsWellFoundedOn(LessThan, Nat)
  BY NatLessThanWellFounded DEF LessThan, OpToRel
<1>3. PICK i \in S : \A j \in S : <<j, i>> \notin LessThan
  BY <1>1, <1>2, WFMin
<1>4. \A j \in S : ~ (j < i)
  BY <1>1, <1>3 DEF LessThan
<1>5. QED
  BY <1>1, <1>4

LEMMA GreatestSlot ==
  ASSUME NEW S \in SUBSET (1 .. Slots), S # {}
  PROVE  \E i \in S : \A j \in S : j <= i
<1> DEFINE T == {i \in 1 .. Slots : Slots + 1 - i \in S}
<1>1. PICK s \in S : TRUE
  OBVIOUS
<1>2. Slots + 1 - s \in 1 .. Slots /\ Slots + 1 - (Slots + 1 - s) = s
  OBVIOUS
<1>3. T \in SUBSET (1 .. Slots) /\ T # {}
  BY <1>1, <1>2
<1>4. PICK k \in T : \A j \in T : k <= j
  BY <1>3, LeastSlot
<1>5. ASSUME NEW j \in S
      PROVE  j <= Slots + 1 - k
  <2>1. j \in 1 .. Slots /\ Slots + 1 - j \in 1 .. Slots
    OBVIOUS
  <2>2. Slots + 1 - (Slots + 1 - j) = j
    BY <2>1
  <2>3. Slots + 1 - j \in T
    BY <2>1, <2>2
  <2>4. k \in 1 .. Slots /\ k <= Slots + 1 - j
    BY <1>4, <2>3
  <2>5. QED
    BY <2>1, <2>4
<1>6. QED
  BY <1>4, <1>5

LEMMA FirstFreeSlot ==
  ASSUME NEW p \in Pages, Free(p) # {}
  PROVE  /\ FirstFree(p) \in Free(p) /\ FirstFree(p) \in 1 .. Slots
         /\ \A j \in Free(p) : FirstFree(p) <= j
<1>1. Free(p) \in SUBSET (1 .. Slots)
  BY DEF Free
<1>2. \E i \in Free(p) : \A j \in Free(p) : i <= j
  BY <1>1, LeastSlot
<1>3. QED
  BY <1>1, <1>2 DEF FirstFree

LEMMA LastHit ==
  ASSUME NEW p \in Pages, NEW a, Hits(p, a) # {}
  PROVE  \E i \in Hits(p, a) : /\ \A j \in Hits(p, a) : j <= i
                               /\ Lookup(p, a) = slot[p][i].data
<1>1. Hits(p, a) \in SUBSET (1 .. Slots)
  BY DEF Hits
<1>2. \E i \in Hits(p, a) : \A j \in Hits(p, a) : j <= i
  BY <1>1, GreatestSlot
<1>3. QED
  BY <1>2 DEF Lookup

LEMMA LookupType ==
  ASSUME TypeOK, NEW p \in Pages, NEW a
  PROVE  Lookup(p, a) \in Values \cup {Blank}
<1>1. CASE Hits(p, a) = {}
  BY <1>1 DEF Lookup
<1>2. CASE Hits(p, a) # {}
  <2>1. PICK i \in Hits(p, a) : Lookup(p, a) = slot[p][i].data
    BY <1>2, LastHit
  <2>2. slot[p][i] \in Cell
    BY <2>1 DEF Hits, TypeOK
  <2>3. QED
    BY <2>1, <2>2 DEF Cell
<1>3. QED
  BY <1>1, <1>2

LEMMA ReadType ==
  ASSUME TypeOK, NEW a
  PROVE  Read(a) \in Values \cup {Blank}
<1>1. ReadPage # NoPage => ReadPage \in Pages
  BY DEF ReadPage, Pages
<1>2. QED
  BY <1>1, LookupType DEF Read

-----------------------------------------------------------------------------
(* Type correctness *)

FlashType == head \in [Pages -> Heads] /\ slot \in [Pages -> [1 .. Slots -> Cell]]

RamType ==
  /\ pc \in Labels /\ job \in Jobs /\ arg \in Entry /\ cur \in Entry
  /\ at \in 0 .. Slots /\ page \in Pages /\ idx \in -1 .. Size
  /\ tabReady \in BOOLEAN

HistoryType == /\ may \in [Vars -> SUBSET (Values \cup {Blank})]
               /\ kept \in BOOLEAN
               /\ losses \in 0 .. MaxLoss /\ fails \in 0 .. MaxFail

LEMMA TypeParts == TypeOK <=> FlashType /\ RamType /\ HistoryType
  BY DEF TypeOK, FlashType, RamType, HistoryType

MayType == may \in [Vars -> SUBSET (Values \cup {Blank})]

LEMMA SoberType == HistoryType /\ Sober /\ MayType' => HistoryType'
  BY DEF HistoryType, Sober, MayType

LEMMA ReturnType == RamType /\ Return => RamType'
<1> SUFFICES ASSUME RamType, Return PROVE RamType'
  OBVIOUS
<1>1. arg' \in Entry /\ cur' \in Entry
  BY Basics DEF Return, NoLocals
<1>2. pc' \in Labels /\ job' \in Jobs /\ tabReady' \in BOOLEAN
  BY DEF Return, Labels, Jobs
<1>3. at' \in 0 .. Slots /\ page' \in Pages /\ idx' \in -1 .. Size
  BY DEF Return, NoLocals, Pages
<1>4. QED
  BY <1>1, <1>2, <1>3 DEF RamType

LEMMA ReturnCompleteType ==
  RamType /\ HistoryType /\ ReturnComplete => RamType' /\ MayType'
<1> SUFFICES ASSUME RamType, HistoryType, ReturnComplete
             PROVE  RamType' /\ MayType'
  OBVIOUS
<1>1. RamType'
  BY ReturnType DEF ReturnComplete
<1>2. arg.val \in Values \cup {Blank} /\ arg.var \in Vars
  BY DEF RamType, Entry
<1>3. MayType'
  BY <1>2 DEF ReturnComplete, MayType, HistoryType
<1>4. QED
  BY <1>1, <1>3

LEMMA GoToType ==
  ASSUME NEW l \in Labels, RamType, HistoryType, GoTo(l)
  PROVE  RamType' /\ MayType'
  BY DEF RamType, GoTo, HistoryType, MayType

LEMMA EraseType ==
  ASSUME NEW p \in Pages, FlashType, Erase(p)
  PROVE  FlashType'
<1>1. "ERASED" \in Heads
  BY DEF Heads
<1>2. QED
  BY <1>1, Basics DEF FlashType, Erase

LEMMA MarkType ==
  ASSUME NEW p \in Pages, NEW h \in Heads, FlashType, Mark(p, h)
  PROVE  FlashType'
  BY DEF FlashType, Mark

LEMMA OtherPage == \A p \in Pages : Other(p) \in Pages /\ Other(p) # p
  BY DEF Pages, Other

LEMMA WritePageType == WritePage # NoPage => WritePage \in Pages
  BY DEF WritePage, Pages

LEMMA ReadPageType == ReadPage # NoPage => ReadPage \in Pages
  BY DEF ReadPage, Pages

\* Program a data half-word; program an address half-word.
LEMMA ProgramType ==
  ASSUME FlashType, NEW p \in Pages, NEW i \in 1 .. Slots
  PROVE  /\ \A d \in Values \cup {Blank} :
              [slot EXCEPT ![p][i].data = d] \in [Pages -> [1 .. Slots -> Cell]]
         /\ \A a \in Vars :
              [slot EXCEPT ![p][i].addr = a] \in [Pages -> [1 .. Slots -> Cell]]
<1>1. slot[p] \in [1 .. Slots -> Cell] /\ slot[p][i] \in Cell
  BY DEF FlashType
<1>2. ASSUME NEW d \in Values \cup {Blank}
      PROVE  [slot EXCEPT ![p][i].data = d] \in [Pages -> [1 .. Slots -> Cell]]
  <2>1. [slot[p][i] EXCEPT !.data = d] \in Cell
    BY <1>1 DEF Cell
  <2>2. QED
    BY <1>1, <2>1 DEF FlashType
<1>3. ASSUME NEW a \in Vars
      PROVE  [slot EXCEPT ![p][i].addr = a] \in [Pages -> [1 .. Slots -> Cell]]
  <2>1. [slot[p][i] EXCEPT !.addr = a] \in Cell
    BY <1>1 DEF Cell
  <2>2. QED
    BY <1>1, <2>1 DEF FlashType
<1>4. QED
  BY <1>2, <1>3

\* The loop variable of the copy loops: the type alone is not inductive.
LoopInv == /\ pc \in {"data", "addr"} /\ job # "write" => idx < Size
           /\ pc = "next" => idx >= 0

LEMMA StepLoop == TypeOK /\ LoopInv /\ [Next]_vars => LoopInv'
<1> SUFFICES ASSUME TypeOK, LoopInv, [Next]_vars PROVE LoopInv'
  OBVIOUS
<1>1. idx \in -1 .. Size
  BY DEF TypeOK
<1>2. ASSUME NEW p \in Pages, BootOneErased(p) \/ BootRecover(p)
      PROVE  LoopInv'
  BY <1>2 DEF BootOneErased, BootRecover, LoopInv
<1>3. CASE BootFormat \/ TidyErase \/ TidyValid \/ FormatErase0 \/ FormatValid0
           \/ FormatErase1 \/ CopiesDone \/ EraseOld \/ MarkValid
  BY <1>3 DEF BootFormat, TidyErase, TidyValid, FormatErase0, FormatValid0,
     FormatErase1, CopiesDone, EraseOld, MarkValid, GoTo, ReturnComplete,
     Return, LoopInv
<1>4. CASE StoreNoPage \/ StorePageFull \/ MarkRefused \/ FlashError \/ PowerLoss
  BY <1>4 DEF StoreNoPage, StorePageFull, MarkRefused, FlashError, PowerLoss,
     Return, LoopInv
<1>5. ASSUME NEW a \in Vars, NEW v \in Values, Write(a, v)
      PROVE  LoopInv'
  BY <1>5 DEF Write, LoopInv
<1>6. CASE ProgramData
  BY <1>6 DEF ProgramData, LoopInv
<1>7. CASE ProgramAddress
  BY <1>1, <1>7 DEF ProgramAddress, ReturnComplete, Return, LoopInv
<1>8. CASE MarkReceive
  BY <1>8 DEF MarkReceive, LoopInv
<1>9. CASE NextVariable
  BY <1>1, <1>9 DEF NextVariable, LoopInv
<1>10. CASE UNCHANGED vars
  BY <1>10 DEF vars, ram, LoopInv
<1>11. QED
  BY <1>2, <1>3, <1>4, <1>5, <1>6, <1>7, <1>8, <1>9, <1>10
  DEF Next, Firmware, Sketch

LEMMA StepType == TypeOK /\ LoopInv /\ [Next]_vars => TypeOK'
<1> SUFFICES ASSUME FlashType, RamType, HistoryType, TypeOK, LoopInv, [Next]_vars
             PROVE  FlashType' /\ RamType' /\ HistoryType'
  BY TypeParts DEF TypeOK, FlashType, RamType, HistoryType
<1> USE DEF NoPage
<1>1. ASSUME NEW p \in Pages, BootOneErased(p)
      PROVE  FlashType' /\ RamType' /\ HistoryType'
  BY <1>1 DEF BootOneErased, flash, FlashType, RamType, HistoryType, Sober, Labels
<1>2. ASSUME NEW p \in Pages, BootRecover(p)
      PROVE  FlashType' /\ RamType' /\ HistoryType'
  BY <1>2 DEF BootRecover, flash, FlashType, RamType, HistoryType, Sober, Labels, Jobs
<1>3. CASE BootFormat
  <2>1. "fmtErase0" \in Labels
    BY DEF Labels
  <2>2. RamType' /\ MayType'
    BY <1>3, <2>1, GoToType DEF BootFormat
  <2>3. QED
    BY <1>3, <2>2, SoberType DEF BootFormat, flash, FlashType
<1>4. CASE TidyErase
  <2>1. "tidyValid" \in Labels
    BY DEF Labels
  <2>2. RamType' /\ MayType'
    BY <1>4, <2>1, GoToType, ReturnCompleteType DEF TidyErase
  <2>3. FlashType'
    BY <1>4, EraseType DEF TidyErase, RamType
  <2>4. QED
    BY <1>4, <2>2, <2>3, SoberType DEF TidyErase
<1>5. CASE TidyValid
  <2>1. FlashType'
    BY <1>5, MarkType, OtherPage DEF TidyValid, RamType, Heads
  <2>2. QED
    BY <1>5, <2>1, ReturnCompleteType, SoberType DEF TidyValid
<1>6. CASE FormatErase0
  <2>1. "fmtValid" \in Labels /\ 0 \in Pages
    BY DEF Labels, Pages
  <2>2. QED
    BY <1>6, <2>1, GoToType, EraseType, SoberType DEF FormatErase0
<1>7. CASE FormatValid0
  <2>1. "fmtErase1" \in Labels /\ 0 \in Pages /\ "VALID_PAGE" \in Heads
    BY DEF Labels, Pages, Heads
  <2>2. QED
    BY <1>7, <2>1, GoToType, MarkType, SoberType DEF FormatValid0
<1>8. CASE FormatErase1
  <2>1. 1 \in Pages
    BY DEF Pages
  <2>2. QED
    BY <1>8, <2>1, ReturnCompleteType, EraseType, SoberType DEF FormatErase1
<1>9. ASSUME NEW a \in Vars, NEW v \in Values, Write(a, v)
      PROVE  FlashType' /\ RamType' /\ HistoryType'
  <2>1. [var |-> a, val |-> v] \in Entry
    BY DEF Entry
  <2>2. RamType'
    BY <1>9, <2>1 DEF Write, RamType, Labels, Jobs
  <2>3. MayType'
    BY <1>9 DEF Write, HistoryType, MayType
  <2>4. QED
    BY <1>9, <2>2, <2>3, SoberType DEF Write, flash, FlashType
<1>10. CASE ProgramData
  <2>1. WritePage \in Pages /\ FirstFree(WritePage) \in 1 .. Slots
    BY <1>10, WritePageType, FirstFreeSlot DEF ProgramData
  <2>2. cur.val \in Values \cup {Blank}
    BY DEF RamType, Entry
  <2>3. FlashType'
    BY <1>10, <2>1, <2>2, ProgramType DEF ProgramData, FlashType
  <2>4. RamType'
    BY <1>10, <2>1 DEF ProgramData, RamType, Labels
  <2>5. QED
    BY <1>10, <2>3, <2>4 DEF ProgramData, Sober, HistoryType
<1>11. CASE ProgramAddress
  <2>1. cur.var \in Vars
    BY DEF RamType, Entry
  <2>2. slot' \in [Pages -> [1 .. Slots -> Cell]]
    <3>1. CASE WritePage \in Pages /\ at \in 1 .. Slots
      BY <1>11, <2>1, <3>1, ProgramType DEF ProgramAddress
    <3>2. CASE ~ (WritePage \in Pages /\ at \in 1 .. Slots)
      BY <1>11, <3>2 DEF ProgramAddress, FlashType
    <3>3. QED
      BY <3>1, <3>2
  <2>3. FlashType'
    BY <1>11, <2>2 DEF ProgramAddress, FlashType
  <2>4. CASE job = "write" /\ ReturnComplete
    BY <1>11, <2>3, <2>4, ReturnCompleteType, SoberType DEF ProgramAddress
  <2>5. CASE job # "write"
    <3>1. idx' \in -1 .. Size
      BY <1>11, <2>5 DEF ProgramAddress, RamType, LoopInv
    <3>2. RamType'
      BY <1>11, <2>5, <3>1 DEF ProgramAddress, RamType, Labels
    <3>3. QED
      BY <1>11, <2>3, <2>5, <3>2 DEF ProgramAddress, HistoryType, Sober
  <2>6. QED
    BY <1>11, <2>4, <2>5 DEF ProgramAddress
<1>12. CASE StoreNoPage
  BY <1>12, ReturnType DEF StoreNoPage, flash, FlashType, HistoryType, Sober
<1>13. CASE StorePageFull
  <2>1. RamType'
    <3>1. CASE job # "write"
      BY <1>13, <3>1, ReturnType DEF StorePageFull
    <3>2. CASE job = "write"
      <4>1. ReadPage \in Pages
        BY <1>13 DEF StorePageFull, ReadPage, WritePage, Pages
      <4>2. QED
        BY <1>13, <3>2, <4>1, OtherPage DEF StorePageFull, RamType, Labels, Jobs
    <3>3. QED
      BY <3>1, <3>2
  <2>2. QED
    BY <1>13, <2>1 DEF StorePageFull, flash, FlashType, HistoryType, Sober
<1>14. CASE MarkReceive
  <2>1. FlashType'
    BY <1>14, MarkType DEF MarkReceive, RamType, Heads
  <2>2. RamType'
    BY <1>14 DEF MarkReceive, RamType, Labels
  <2>3. QED
    BY <1>14, <2>1, <2>2 DEF MarkReceive, HistoryType, Sober
<1>15. CASE MarkRefused
  BY <1>15, ReturnType DEF MarkRefused, flash, FlashType, HistoryType, Sober
<1>16. CASE NextVariable
  <2>1. idx' \in -1 .. Size /\ pc' \in Labels
    BY <1>16 DEF NextVariable, RamType, Labels
  <2>2. cur' \in Entry
    <3>1. CASE Skip(idx) \/ Read(Tab(idx)) = Blank
      BY <1>16, <3>1 DEF NextVariable, RamType
    <3>2. CASE ~ (Skip(idx) \/ Read(Tab(idx)) = Blank)
      <4>1. cur' = [var |-> Tab(idx), val |-> Read(Tab(idx))]
        BY <1>16, <3>2 DEF NextVariable
      <4>2. Tab(idx) \in Vars
        BY <1>16 DEF NextVariable, Tab, Vars, RamType, LoopInv
      <4>3. QED
        BY <4>1, <4>2, ReadType DEF Entry
    <3>3. QED
      BY <3>1, <3>2
  <2>3. QED
    BY <1>16, <2>1, <2>2 DEF NextVariable, flash, FlashType, RamType, HistoryType, Sober
<1>17. CASE CopiesDone
  <2>1. "erase" \in Labels /\ "valid" \in Labels
    BY DEF Labels
  <2>2. QED
    BY <1>17, <2>1, GoToType, SoberType DEF CopiesDone, flash, FlashType
<1>18. CASE EraseOld
  <2>1. "valid" \in Labels
    BY DEF Labels
  <2>2. FlashType'
    BY <1>18, EraseType, OtherPage DEF EraseOld, RamType
  <2>3. QED
    BY <1>18, <2>1, <2>2, GoToType, ReturnCompleteType, SoberType DEF EraseOld
<1>19. CASE MarkValid
  <2>1. "erase" \in Labels
    BY DEF Labels
  <2>2. FlashType'
    BY <1>19, MarkType DEF MarkValid, RamType, Heads
  <2>3. QED
    BY <1>19, <2>1, <2>2, GoToType, ReturnCompleteType, SoberType DEF MarkValid
<1>20. CASE FlashError
  <2>1. HistoryType'
    BY <1>20 DEF FlashError, HistoryType
  <2>2. QED
    BY <1>20, <2>1, ReturnType DEF FlashError, flash, FlashType
<1>21. CASE PowerLoss
  <2>1. FlashType'
    BY <1>21 DEF PowerLoss, FlashType, Heads
  <2>2. RamType'
    <3>1. /\ arg' \in Entry /\ cur' \in Entry /\ at' \in 0 .. Slots
          /\ page' \in Pages /\ idx' \in -1 .. Size
      BY <1>21, Basics DEF PowerLoss, NoLocals, Pages
    <3>2. pc' \in Labels /\ job' \in Jobs /\ tabReady' \in BOOLEAN
      BY <1>21 DEF PowerLoss, Labels, Jobs
    <3>3. QED
      BY <3>1, <3>2 DEF RamType
  <2>3. HistoryType'
    BY <1>21 DEF PowerLoss, HistoryType
  <2>4. QED
    BY <2>1, <2>2, <2>3
<1>22. CASE UNCHANGED vars
  BY <1>22 DEF vars, flash, ram, FlashType, RamType, HistoryType
<1>23. QED
  BY <1>1, <1>2, <1>3, <1>4, <1>5, <1>6, <1>7, <1>8, <1>9, <1>10, <1>11, <1>12,
     <1>13, <1>14, <1>15, <1>16, <1>17, <1>18, <1>19, <1>20, <1>21, <1>22
  DEF Next, Firmware, Sketch

\* Every variable keeps its type, whatever the sketch, the flash and the power
\* supply do.
THEOREM TypeCorrect == Spec => []TypeOK
<1>1. Init => LoopInv
  BY DEF Init, LoopInv
<1>2. QED
  BY InitType, StepType, StepLoop, <1>1, PTL DEF Spec

-----------------------------------------------------------------------------
(* There is always a page to read *)

HasValid == \E p \in Pages : head[p] = "VALID_PAGE"

\* Which steps may run without a valid page: those that are about to mark one.
\* EEPROM_Format and a recovery erase only once another page is marked.
HeaderInv == fails = 0 =>
  /\ pc \in {"idle", "data", "addr", "next"} => HasValid
  /\ pc = "mark" => head[Other(page)] = "VALID_PAGE"
  /\ pc = "erase" /\ job # "transfer" => head[page] = "VALID_PAGE"
  /\ pc = "fmtErase1" => head[0] = "VALID_PAGE"

LEMMA ValidPage == /\ HasValid => ReadPage \in Pages /\ WritePage # NoPage
                   /\ ReadPage # NoPage <=> HasValid
                   /\ ReadPage # NoPage => head[ReadPage] = "VALID_PAGE"
  BY DEF HasValid, ReadPage, WritePage, NoPage, Pages

LEMMA StepHeader == TypeOK /\ HeaderInv /\ [Next]_vars => HeaderInv'
<1> SUFFICES ASSUME TypeOK, HeaderInv, [Next]_vars, fails' = 0
             PROVE  /\ pc' \in {"idle", "data", "addr", "next"} => HasValid'
                    /\ pc' = "mark" => head'[Other(page')] = "VALID_PAGE"
                    /\ pc' = "erase" /\ job' # "transfer" => head'[page'] = "VALID_PAGE"
                    /\ pc' = "fmtErase1" => head'[0] = "VALID_PAGE"
  BY DEF HeaderInv, Other
<1> DEFINE Goal == /\ pc' \in {"idle", "data", "addr", "next"} => HasValid'
                   /\ pc' = "mark" => head'[Other(page')] = "VALID_PAGE"
                   /\ pc' = "erase" /\ job' # "transfer" => head'[page'] = "VALID_PAGE"
                   /\ pc' = "fmtErase1" => head'[0] = "VALID_PAGE"
<1>1. head \in [Pages -> Heads] /\ page \in Pages /\ fails \in Nat
  BY DEF TypeOK
<1>2. ASSUME NEW p \in Pages, BootOneErased(p) \/ BootRecover(p)
      PROVE  Goal
  BY <1>1, <1>2, OtherPage DEF BootOneErased, BootRecover, flash, HasValid
<1>3. CASE BootFormat \/ TidyErase \/ TidyValid \/ FormatErase0 \/ FormatValid0
  BY <1>1, <1>3, OtherPage
  DEF BootFormat, TidyErase, TidyValid, FormatErase0, FormatValid0, Erase, Mark,
      GoTo, ReturnComplete, Return, flash, HasValid, Pages, Other
<1>4. CASE FormatErase1
  BY <1>1, <1>4 DEF FormatErase1, Erase, ReturnComplete, Return, Sober, HeaderInv,
     HasValid, Pages
<1>5. ASSUME NEW a \in Vars, NEW v \in Values, Write(a, v)
      PROVE  Goal
  BY <1>5 DEF Write, Sober, HeaderInv, HasValid, flash
<1>6. CASE ProgramData \/ NextVariable
  BY <1>6 DEF ProgramData, NextVariable, Sober, HeaderInv, HasValid, flash
<1>7. CASE ProgramAddress
  BY <1>7 DEF ProgramAddress, ReturnComplete, Return, Sober, HeaderInv, HasValid
<1>8. CASE StoreNoPage
  BY <1>8, ValidPage DEF StoreNoPage, Sober, HeaderInv
<1>9. CASE StorePageFull
  <2>1. HasValid
    BY <1>9 DEF StorePageFull, Sober, HeaderInv
  <2>2. ReadPage \in Pages /\ head[ReadPage] = "VALID_PAGE"
    BY <2>1, ValidPage
  <2>3. Other(Other(ReadPage)) = ReadPage
    BY <2>2 DEF Pages, Other
  <2>4. HasValid'
    BY <1>9, <2>1 DEF StorePageFull, HasValid, flash
  <2>5. CASE job = "write"
    BY <1>9, <2>2, <2>3, <2>4, <2>5 DEF StorePageFull, Return, flash
  <2>6. CASE job # "write"
    BY <1>9, <2>4, <2>6 DEF StorePageFull, Return
  <2>7. QED
    BY <2>5, <2>6
<1>10. CASE MarkReceive
  <2>1. head[Other(page)] = "VALID_PAGE"
    BY <1>10 DEF MarkReceive, Sober, HeaderInv
  <2>2. HasValid'
    BY <1>1, <1>10, <2>1, OtherPage DEF MarkReceive, Mark, HasValid
  <2>3. QED
    BY <1>10, <2>2 DEF MarkReceive
<1>11. CASE MarkRefused
  BY <1>1, <1>11, OtherPage DEF MarkRefused, Return, Sober, HeaderInv, HasValid, flash
<1>12. CASE CopiesDone
  BY <1>12 DEF CopiesDone, GoTo
<1>13. CASE EraseOld
  <2>1. job # "transfer" => head[page] = "VALID_PAGE"
    BY <1>13 DEF EraseOld, Sober, HeaderInv
  <2>2. job # "transfer" => HasValid'
    BY <1>1, <1>13, <2>1, OtherPage DEF EraseOld, Erase, HasValid
  <2>3. QED
    BY <1>13, <2>2 DEF EraseOld, GoTo, ReturnComplete, Return
<1>14. CASE MarkValid
  BY <1>1, <1>14 DEF MarkValid, Mark, GoTo, ReturnComplete, Return, HasValid
<1>15. CASE FlashError
  BY <1>1, <1>15 DEF FlashError
<1>16. CASE PowerLoss
  BY <1>16 DEF PowerLoss
<1>17. CASE UNCHANGED vars
  BY <1>17 DEF vars, flash, ram, HeaderInv, HasValid
<1>18. QED
  BY <1>2, <1>3, <1>4, <1>5, <1>6, <1>7, <1>8, <1>9, <1>10, <1>11, <1>12, <1>13,
     <1>14, <1>15, <1>16, <1>17 DEF Next, Firmware, Sketch

\* However often power is lost, and wherever, the sketch finds a valid page as
\* long as no flash operation has failed.
THEOREM AlwaysReadable == Spec => []ReadableWhenIdle
<1>1. Init => HeaderInv
  BY DEF Init, HeaderInv
<1>2. HeaderInv => ReadableWhenIdle
  BY ValidPage DEF HeaderInv, ReadableWhenIdle
<1>3. QED
  BY <1>1, <1>2, StepHeader, TypeCorrect, PTL DEF Spec
-----------------------------------------------------------------------------
(* The contents of a page *)

\* What Lookup finds, as a function of the slots.
InPage(s, a) ==
  IF {i \in 1 .. Slots : s[i].addr = a} = {} THEN Blank
  ELSE s[CHOOSE i \in {k \in 1 .. Slots : s[k].addr = a} :
           \A j \in {k \in 1 .. Slots : s[k].addr = a} : j <= i].data

\* A page is filled from the bottom.
FilledIn(s) == \A i, j \in 1 .. Slots : i < j /\ s[i] = Empty => s[j] = Empty

PageType == [1 .. Slots -> Cell]

LEMMA LookupIs == \A p \in Pages, a \in Vars : Lookup(p, a) = InPage(slot[p], a)
  BY DEF Lookup, Hits, InPage

LEMMA VarsNotBlank == \A a \in Vars : a # Blank
  BY DEF Vars

\* The topmost entry decides, and without an entry there is nothing.
LEMMA TopmostIs ==
  ASSUME NEW s, NEW a, NEW i \in 1 .. Slots, s[i].addr = a,
         \A j \in 1 .. Slots : s[j].addr = a => j <= i
  PROVE  InPage(s, a) = s[i].data
<1> DEFINE H == {k \in 1 .. Slots : s[k].addr = a}
<1>1. i \in H /\ \A j \in H : j <= i
  OBVIOUS
<1>2. \A k \in H : (\A j \in H : j <= k) => k = i
  BY <1>1
<1>3. (CHOOSE k \in H : \A j \in H : j <= k) = i
  BY <1>1, <1>2
<1>4. QED
  BY <1>1, <1>3 DEF InPage

LEMMA NoneIs ==
  ASSUME NEW s, NEW a, \A i \in 1 .. Slots : s[i].addr # a
  PROVE  InPage(s, a) = Blank
<1>1. {i \in 1 .. Slots : s[i].addr = a} = {}
  OBVIOUS
<1>2. QED
  BY <1>1 DEF InPage

\* Two pages with the same entries for a variable read the same.
LEMMA SameEntries ==
  ASSUME NEW s, NEW t, NEW a,
         \A i \in 1 .. Slots : s[i].addr = a <=> t[i].addr = a,
         \A i \in 1 .. Slots : s[i].addr = a => s[i].data = t[i].data
  PROVE  InPage(s, a) = InPage(t, a)
<1> DEFINE H == {i \in 1 .. Slots : s[i].addr = a}
<1>1. CASE H = {}
  <2>1. \A i \in 1 .. Slots : s[i].addr # a /\ t[i].addr # a
    BY <1>1
  <2>2. QED
    BY <2>1, NoneIs
<1>2. CASE H # {}
  <2>1. H \in SUBSET (1 .. Slots)
    OBVIOUS
  <2>2. PICK i \in H : \A j \in H : j <= i
    BY <1>2, <2>1, GreatestSlot
  <2>3. i \in 1 .. Slots /\ s[i].addr = a /\ t[i].addr = a /\ s[i].data = t[i].data
    BY <2>2
  <2>4. \A j \in 1 .. Slots : s[j].addr = a => j <= i
    BY <2>2
  <2>5. \A j \in 1 .. Slots : t[j].addr = a => j <= i
    BY <2>4
  <2>6. InPage(s, a) = s[i].data
    BY <2>3, <2>4, TopmostIs
  <2>7. InPage(t, a) = t[i].data
    BY <2>3, <2>5, TopmostIs
  <2>8. QED
    BY <2>3, <2>6, <2>7
<1>3. QED
  BY <1>1, <1>2

\* A data half-word without an address is not found.
LEMMA DataUnseen ==
  ASSUME NEW s \in PageType, NEW i \in 1 .. Slots, s[i] = Empty, NEW d \in Values
  PROVE  \A a \in Vars : InPage([s EXCEPT ![i].data = d], a) = InPage(s, a)
<1> DEFINE t == [s EXCEPT ![i].data = d]
<1>1. t[i].addr = Blank /\ s[i].addr = Blank
  BY DEF PageType, Cell, Empty
<1>2. \A j \in 1 .. Slots : j # i => t[j] = s[j]
  BY DEF PageType
<1>3. ASSUME NEW a \in Vars
      PROVE  InPage(t, a) = InPage(s, a)
  <2>1. a # Blank
    BY VarsNotBlank
  <2>2. \A j \in 1 .. Slots : t[j].addr = a <=> s[j].addr = a
    BY <1>1, <1>2, <2>1
  <2>3. \A j \in 1 .. Slots : t[j].addr = a => t[j].data = s[j].data
    BY <1>1, <1>2, <2>1
  <2> HIDE DEF t
  <2>4. QED
    BY <2>2, <2>3, SameEntries
<1>4. QED
  BY <1>3

\* An address half-word in the topmost slot makes its entry the one found.
LEMMA AddressSeen ==
  ASSUME NEW s \in PageType, NEW i \in 1 .. Slots, s[i].addr = Blank,
         \A j \in 1 .. Slots : j > i => s[j] = Empty, NEW b \in Vars
  PROVE  \A a \in Vars : InPage([s EXCEPT ![i].addr = b], a)
                           = IF a = b THEN s[i].data ELSE InPage(s, a)
<1> DEFINE t == [s EXCEPT ![i].addr = b]
<1>1. t[i].addr = b /\ t[i].data = s[i].data
  BY DEF PageType, Cell
<1>2. \A j \in 1 .. Slots : j # i => t[j] = s[j]
  BY DEF PageType
<1>3. b # Blank
  BY VarsNotBlank
<1>4. \A j \in 1 .. Slots : t[j].addr = b => j <= i
  <2>1. \A j \in 1 .. Slots : j > i => t[j].addr = Blank
    BY <1>2 DEF Empty
  <2>2. QED
    BY <1>3, <2>1
<1> HIDE DEF t
<1>5. InPage(t, b) = s[i].data
  BY <1>1, <1>4, TopmostIs
<1>6. ASSUME NEW a \in Vars, a # b
      PROVE  InPage(t, a) = InPage(s, a)
  <2>1. a # Blank
    BY VarsNotBlank
  <2>2. \A j \in 1 .. Slots : t[j].addr = a <=> s[j].addr = a
    BY <1>1, <1>2, <1>6, <2>1
  <2>3. \A j \in 1 .. Slots : t[j].addr = a => t[j].data = s[j].data
    BY <1>1, <1>2, <1>6
  <2>4. QED
    BY <2>2, <2>3, SameEntries
<1>7. QED
  BY <1>5, <1>6 DEF t

LEMMA BlankHolds ==
  /\ FilledIn(BlankPage)
  /\ \A a \in Vars : InPage(BlankPage, a) = Blank
<1>1. FilledIn(BlankPage)
  BY DEF FilledIn, BlankPage
<1>2. ASSUME NEW a \in Vars
      PROVE  InPage(BlankPage, a) = Blank
  <2>1. a # Blank
    BY VarsNotBlank
  <2>2. \A i \in 1 .. Slots : BlankPage[i].addr # a
    BY <2>1 DEF BlankPage, Empty
  <2>3. QED
    BY <2>2, NoneIs
<1>3. QED
  BY <1>1, <1>2

-----------------------------------------------------------------------------
(* The functions on the stack *)

Booting == pc \in {"boot", "tidyErase", "tidyValid", "fmtErase0", "fmtValid", "fmtErase1"}
Storing == pc \in {"data", "addr"}

\* Which function is where, whatever fails.
CallInv ==
  /\ Booting => job = "init"
  /\ pc = "idle" => tabReady
  /\ Storing => job \in {"write", "transfer", "recover"} /\ cur.val \in Values
  /\ pc = "mark" => job = "transfer" /\ cur = arg /\ cur.val \in Values
  /\ pc \in {"next", "erase", "valid"} => job \in {"transfer", "recover"}
  /\ job = "write" => Storing /\ cur = arg
  /\ job = "transfer" => pc \in {"mark", "data", "addr", "next", "erase", "valid"}
  /\ job \in {"write", "transfer"} => tabReady
  /\ job = "recover" => idx >= 0

\* Where the headers stand in a function that erases or marks a page.
PagesInv ==
  /\ pc = "tidyErase" => head[page] = "ERASED" /\ head[Other(page)] # "ERASED"
  /\ pc = "tidyValid" => head[page] = "ERASED" /\ head[Other(page)] = "RECEIVE_DATA"
  /\ pc = "fmtErase0" => head[0] = head[1]
  /\ pc = "mark" => head[Other(page)] = "VALID_PAGE"
  /\ job \in {"transfer", "recover"} /\ (Storing \/ pc = "next") =>
       head[page] = "RECEIVE_DATA" /\ head[Other(page)] = "VALID_PAGE"
  /\ pc = "erase" /\ job = "transfer" =>
       head[page] = "RECEIVE_DATA" /\ head[Other(page)] = "VALID_PAGE"
  /\ pc = "valid" =>
       /\ head[page] = "RECEIVE_DATA"
       /\ job = "transfer" => head[Other(page)] = "ERASED"

\* Pages are filled from the bottom, and an entry that has its data half-word only
\* is the topmost one.
TornInv ==
  /\ \A p \in Pages : FilledIn(slot[p])
  /\ pc = "addr" =>
       /\ WritePage # NoPage /\ at \in 1 .. Slots
       /\ slot[WritePage][at] = [data |-> cur.val, addr |-> Blank]
       /\ \A j \in 1 .. Slots : j > at => slot[WritePage][j] = Empty

ShapeInv == CallInv /\ PagesInv /\ TornInv

LEMMA WritesTo ==
  ASSUME RamType, PagesInv, Storing, job \in {"transfer", "recover"}
  PROVE  WritePage = page /\ ReadPage = Other(page)
<1>1. head[page] = "RECEIVE_DATA" /\ head[Other(page)] = "VALID_PAGE"
  BY DEF PagesInv
<1>2. page = 0 \/ page = 1
  BY DEF RamType, Pages
<1>3. QED
  BY <1>1, <1>2 DEF WritePage, ReadPage, Other

LEMMA ReadsFrom ==
  ASSUME RamType, PagesInv, pc = "next", job \in {"transfer", "recover"}
  PROVE  ReadPage = Other(page)
<1>1. head[page] = "RECEIVE_DATA" /\ head[Other(page)] = "VALID_PAGE"
  BY DEF PagesInv
<1>2. page = 0 \/ page = 1
  BY DEF RamType, Pages
<1>3. QED
  BY <1>1, <1>2 DEF ReadPage, Other

LEMMA StepCall == TypeOK /\ LoopInv /\ CallInv /\ [Next]_vars => CallInv'
<1> SUFFICES ASSUME TypeOK, LoopInv, CallInv, [Next]_vars PROVE CallInv'
  OBVIOUS
<1> USE DEF CallInv, Booting, Storing
<1>1. ASSUME NEW p \in Pages, BootOneErased(p) \/ BootRecover(p)
      PROVE  CallInv'
  BY <1>1 DEF BootOneErased, BootRecover
<1>2. CASE BootFormat \/ TidyErase \/ TidyValid \/ FormatErase0 \/ FormatValid0
           \/ FormatErase1
  BY <1>2 DEF BootFormat, TidyErase, TidyValid, FormatErase0, FormatValid0,
     FormatErase1, GoTo, ReturnComplete, Return
<1>3. CASE CopiesDone \/ EraseOld \/ MarkValid
  BY <1>3 DEF CopiesDone, EraseOld, MarkValid, GoTo, ReturnComplete, Return
<1>4. CASE StoreNoPage \/ StorePageFull \/ MarkRefused
  BY <1>4 DEF StoreNoPage, StorePageFull, MarkRefused, Return
<1>5. CASE FlashError \/ PowerLoss
  BY <1>5 DEF FlashError, PowerLoss, Return
<1>6. ASSUME NEW a \in Vars, NEW v \in Values, Write(a, v)
      PROVE  CallInv'
  BY <1>6 DEF Write
<1>7. CASE ProgramData
  BY <1>7 DEF ProgramData
<1>8. CASE ProgramAddress
  <2>1. job = "recover" => idx + 1 >= 0
    BY DEF TypeOK
  <2>2. QED
    BY <1>8, <2>1 DEF ProgramAddress, ReturnComplete, Return
<1>9. CASE MarkReceive
  BY <1>9 DEF MarkReceive
<1>10. CASE NextVariable
  <2>1. idx + 1 >= 0 /\ idx >= 0
    BY <1>10 DEF NextVariable, LoopInv, TypeOK
  <2>2. Read(Tab(idx)) # Blank => Read(Tab(idx)) \in Values
    BY ReadType
  <2>3. CASE Skip(idx) \/ Read(Tab(idx)) = Blank
    BY <1>10, <2>1, <2>3 DEF NextVariable
  <2>4. CASE ~ (Skip(idx) \/ Read(Tab(idx)) = Blank)
    BY <1>10, <2>1, <2>2, <2>4 DEF NextVariable
  <2>5. QED
    BY <2>3, <2>4
<1>11. CASE UNCHANGED vars
  BY <1>11 DEF vars, ram
<1>12. QED
  BY <1>1, <1>2, <1>3, <1>4, <1>5, <1>6, <1>7, <1>8, <1>9, <1>10, <1>11
  DEF Next, Firmware, Sketch

LEMMA StepPages ==
  TypeOK /\ CallInv /\ PagesInv /\ [Next]_vars => PagesInv'
<1> SUFFICES ASSUME TypeOK, CallInv, PagesInv, [Next]_vars PROVE PagesInv'
  OBVIOUS
<1> USE DEF PagesInv, Storing
<1>0. /\ head \in [Pages -> Heads] /\ page \in Pages /\ Other(page) \in Pages
      /\ Other(page) # page /\ 0 \in Pages /\ 1 \in Pages
  BY OtherPage DEF TypeOK, Pages
<1>1. ASSUME NEW p \in Pages, BootOneErased(p) \/ BootRecover(p)
      PROVE  PagesInv'
  BY <1>0, <1>1 DEF BootOneErased, BootRecover, flash, CallInv, Booting, Other
<1>2. CASE BootFormat \/ FormatErase0 \/ FormatValid0 \/ FormatErase1
  BY <1>0, <1>2 DEF BootFormat, FormatErase0, FormatValid0, FormatErase1, GoTo,
     ReturnComplete, Return, flash
<1>3. CASE TidyErase
  <2>1. head[Other(page)] # "VALID_PAGE" => head[Other(page)] = "RECEIVE_DATA"
    BY <1>0, <1>3 DEF TidyErase, Heads
  <2>2. QED
    BY <1>0, <1>3, <2>1 DEF TidyErase, GoTo, ReturnComplete, Return, Erase, Other
<1>4. CASE TidyValid
  BY <1>4 DEF TidyValid, ReturnComplete, Return
<1>5. CASE CopiesDone
  BY <1>5 DEF CopiesDone, GoTo, flash, CallInv, Other
<1>6. CASE EraseOld
  BY <1>0, <1>6 DEF EraseOld, Erase, GoTo, ReturnComplete, Return, CallInv, Other
<1>7. CASE MarkValid
  BY <1>0, <1>7 DEF MarkValid, Mark, GoTo, ReturnComplete, Return, CallInv
<1>8. CASE StoreNoPage \/ MarkRefused
  BY <1>8 DEF StoreNoPage, MarkRefused, Return, flash
<1>9. CASE FlashError \/ PowerLoss
  BY <1>9 DEF FlashError, PowerLoss, Return
<1>10. ASSUME NEW a \in Vars, NEW v \in Values, Write(a, v)
       PROVE  PagesInv'
  BY <1>10 DEF Write
<1>11. CASE ProgramData
  BY <1>11 DEF ProgramData, Other
<1>12. CASE ProgramAddress
  BY <1>12 DEF ProgramAddress, ReturnComplete, Return, Other
<1>13. CASE MarkReceive
  <2>1. head' = [head EXCEPT ![page] = "RECEIVE_DATA"] /\ page' = page /\ pc' = "data"
    BY <1>13 DEF MarkReceive, Mark
  <2>2. head[Other(page)] = "VALID_PAGE"
    BY <1>13 DEF MarkReceive
  <2>3. QED
    BY <1>0, <2>1, <2>2 DEF Other
<1>14. CASE NextVariable
  BY <1>14 DEF NextVariable, flash, Other
<1>15. CASE UNCHANGED vars
  BY <1>15 DEF vars, ram, flash, Other
<1>16. CASE StorePageFull
  <2>1. ReadPage \in Pages /\ head[ReadPage] = "VALID_PAGE"
    BY <1>16 DEF StorePageFull, ReadPage, WritePage, NoPage, Pages
  <2>2. Other(Other(ReadPage)) = ReadPage
    BY <2>1 DEF Pages, Other
  <2>3. CASE job = "write"
    <3>1. pc' = "mark" /\ page' = Other(ReadPage) /\ head' = head
      BY <1>16, <2>3 DEF StorePageFull, flash
    <3>2. Other(page)' = ReadPage
      BY <2>2, <3>1 DEF Other
    <3>3. QED
      BY <2>1, <3>1, <3>2
  <2>4. CASE job # "write"
    BY <1>16, <2>4 DEF StorePageFull, Return
  <2>5. QED
    BY <2>3, <2>4
<1>17. QED
  BY <1>1, <1>2, <1>3, <1>4, <1>5, <1>6, <1>7, <1>8, <1>9, <1>10, <1>11, <1>12,
     <1>13, <1>14, <1>15, <1>16 DEF Next, Firmware, Sketch

-----------------------------------------------------------------------------
(* What a flash operation does to the contents of the pages *)

LEMMA EraseEffect ==
  ASSUME TypeOK, NEW q \in Pages, Erase(q)
  PROVE  /\ slot'[q] = BlankPage /\ head'[q] = "ERASED"
         /\ \A p \in Pages : p # q => slot'[p] = slot[p] /\ head'[p] = head[p]
  BY DEF TypeOK, Erase

LEMMA MarkEffect ==
  ASSUME TypeOK, NEW q \in Pages, NEW h, Mark(q, h)
  PROVE  /\ slot' = slot /\ head'[q] = h
         /\ \A p \in Pages : p # q => head'[p] = head[p]
  BY DEF TypeOK, Mark

LEMMA SamePage == head' = head => WritePage' = WritePage /\ ReadPage' = ReadPage
  BY DEF WritePage, ReadPage

\* The data half-word goes to the first free slot, with nothing above it.
LEMMA DataEffect ==
  ASSUME TypeOK, CallInv, TornInv, ProgramData
  PROVE  /\ WritePage \in Pages /\ at' \in 1 .. Slots
         /\ slot'[WritePage][at'] = [data |-> cur.val, addr |-> Blank]
         /\ \A j \in 1 .. Slots : j > at' => slot'[WritePage][j] = Empty
         /\ \A p \in Pages : FilledIn(slot'[p])
         /\ \A p \in Pages, a \in Vars : InPage(slot'[p], a) = InPage(slot[p], a)
<1> DEFINE W == WritePage
           i == FirstFree(W)
           s == slot[W]
           t == [s EXCEPT ![i].data = cur.val]
<1>1. W \in Pages
  BY WritePageType DEF ProgramData
<1>2. Free(W) # {} /\ slot' = [slot EXCEPT ![W][i].data = cur.val] /\ at' = i
  BY DEF ProgramData
<1>3. i \in Free(W) /\ i \in 1 .. Slots
  BY <1>1, <1>2, FirstFreeSlot
<1>4. s \in PageType /\ s[i] = Empty
  BY <1>1, <1>3 DEF TypeOK, PageType, Free
<1>5. slot'[W] = t /\ \A p \in Pages : p # W => slot'[p] = slot[p]
  BY <1>1, <1>2 DEF TypeOK
<1>6. cur.val \in Values
  BY DEF CallInv, Storing, ProgramData
<1>7. FilledIn(s) /\ \A p \in Pages : FilledIn(slot[p])
  BY <1>1 DEF TornInv
<1> HIDE DEF i
<1>8. t[i] = [data |-> cur.val, addr |-> Blank] /\ \A j \in 1 .. Slots : j # i => t[j] = s[j]
  BY <1>3, <1>4 DEF PageType, Empty
<1>9. \A j \in 1 .. Slots : j > i => s[j] = Empty
  BY <1>3, <1>4, <1>7 DEF FilledIn
<1>10. \A j \in 1 .. Slots : j > i => t[j] = Empty
  BY <1>3, <1>8, <1>9
<1>11. t[i] # Empty
  BY <1>6, <1>8 DEF Empty
<1>12. FilledIn(t)
  <2> SUFFICES ASSUME NEW j \in 1 .. Slots, NEW k \in 1 .. Slots, j < k, t[j] = Empty
               PROVE  t[k] = Empty
    BY DEF FilledIn
  <2>1. j # i /\ s[j] = Empty
    BY <1>8, <1>11
  <2>2. CASE k = i
    <3>1. j \in Free(W) /\ i <= j
      BY <1>1, <1>2, <2>1, FirstFreeSlot DEF Free, i
    <3>2. QED
      BY <1>3, <2>2, <3>1
  <2>3. CASE k # i
    BY <1>7, <1>8, <2>1, <2>3 DEF FilledIn
  <2>4. QED
    BY <2>2, <2>3
<1>13. \A a \in Vars : InPage(t, a) = InPage(s, a)
  BY <1>3, <1>4, <1>6, DataUnseen
<1> HIDE DEF t, s
<1>14. \A p \in Pages : FilledIn(slot'[p])
  BY <1>5, <1>7, <1>12
<1>15. \A p \in Pages, a \in Vars : InPage(slot'[p], a) = InPage(slot[p], a)
  BY <1>5, <1>13 DEF s
<1>16. QED
  BY <1>1, <1>2, <1>3, <1>5, <1>8, <1>10, <1>14, <1>15

\* The address half-word makes the entry count.
LEMMA AddressEffect ==
  ASSUME TypeOK, CallInv, TornInv, ProgramAddress
  PROVE  /\ WritePage \in Pages /\ cur.var \in Vars
         /\ \A p \in Pages : FilledIn(slot'[p])
         /\ \A p \in Pages : p # WritePage => slot'[p] = slot[p]
         /\ \A a \in Vars : InPage(slot'[WritePage], a)
              = IF a = cur.var THEN cur.val ELSE InPage(slot[WritePage], a)
<1> DEFINE W == WritePage
           s == slot[W]
           t == [s EXCEPT ![at].addr = cur.var]
<1>1. /\ W \in Pages /\ at \in 1 .. Slots
      /\ s[at] = [data |-> cur.val, addr |-> Blank]
      /\ \A j \in 1 .. Slots : j > at => s[j] = Empty
      /\ \A p \in Pages : FilledIn(slot[p])
  BY WritePageType DEF ProgramAddress, TornInv
<1>2. cur.var \in Vars /\ s \in PageType
  BY <1>1 DEF TypeOK, Entry, PageType
<1>3. slot'[W] = t /\ \A p \in Pages : p # W => slot'[p] = slot[p]
  BY <1>1 DEF TypeOK, ProgramAddress
<1>4. cur.val \in Values
  BY DEF CallInv, Storing, ProgramAddress
<1>5. t[at] # Empty /\ s[at] # Empty /\ \A j \in 1 .. Slots : j # at => t[j] = s[j]
  BY <1>1, <1>2, <1>4, VarsNotBlank DEF PageType, Empty
<1>6. \A a \in Vars : InPage(t, a) = IF a = cur.var THEN s[at].data ELSE InPage(s, a)
  <2>1. s[at].addr = Blank
    BY <1>1
  <2> HIDE DEF s
  <2>2. QED
    BY <1>1, <1>2, <2>1, AddressSeen
<1>7. FilledIn(s)
  BY <1>1
<1> HIDE DEF t, s
<1>8. \A j \in 1 .. Slots : t[j] = Empty <=> s[j] = Empty
  BY <1>5
<1>9. FilledIn(t)
  BY <1>7, <1>8 DEF FilledIn
<1>10. \A p \in Pages : FilledIn(slot'[p])
  BY <1>1, <1>3, <1>9
<1>11. \A a \in Vars : InPage(slot'[W], a) = IF a = cur.var THEN cur.val ELSE InPage(s, a)
  BY <1>1, <1>3, <1>6
<1>12. QED
  BY <1>1, <1>2, <1>3, <1>10, <1>11 DEF s

LEMMA StepTorn == TypeOK /\ CallInv /\ TornInv /\ [Next]_vars => TornInv'
<1> SUFFICES ASSUME TypeOK, CallInv, TornInv, [Next]_vars PROVE TornInv'
  OBVIOUS
<1>0. page \in Pages /\ Other(page) \in Pages /\ 0 \in Pages /\ 1 \in Pages
  BY OtherPage DEF TypeOK, Pages
<1>1. ASSUME slot' = slot, pc' # "addr"
      PROVE  TornInv'
  BY <1>1 DEF TornInv
<1>2. ASSUME NEW q \in Pages, Erase(q), pc' # "addr"
      PROVE  TornInv'
  <2>1. \A p \in Pages : slot'[p] = BlankPage \/ slot'[p] = slot[p]
    BY <1>2, EraseEffect
  <2>2. QED
    BY <1>2, <2>1, BlankHolds DEF TornInv
<1>3. ASSUME NEW p \in Pages, BootOneErased(p) \/ BootRecover(p)
      PROVE  TornInv'
  BY <1>1, <1>3 DEF BootOneErased, BootRecover, flash
<1>4. CASE BootFormat \/ StoreNoPage \/ StorePageFull \/ MarkRefused \/ CopiesDone
  BY <1>1, <1>4 DEF BootFormat, StoreNoPage, StorePageFull, MarkRefused, CopiesDone,
     GoTo, Return, flash
<1>5. CASE TidyValid \/ FormatValid0 \/ MarkReceive \/ MarkValid
  BY <1>1, <1>5 DEF TidyValid, FormatValid0, MarkReceive, MarkValid, Mark, GoTo,
     ReturnComplete, Return
<1>6. CASE TidyErase \/ FormatErase0 \/ FormatErase1 \/ EraseOld
  BY <1>0, <1>2, <1>6 DEF TidyErase, FormatErase0, FormatErase1, EraseOld, GoTo,
     ReturnComplete, Return
<1>7. ASSUME NEW a \in Vars, NEW v \in Values, Write(a, v)
      PROVE  TornInv'
  BY <1>1, <1>7 DEF Write, flash
<1>8. CASE ProgramData
  <2>1. head' = head /\ cur' = cur
    BY <1>8 DEF ProgramData
  <2>2. WritePage' = WritePage /\ WritePage # NoPage
    BY <1>8, <2>1, SamePage DEF ProgramData
  <2>3. QED
    BY <1>8, <2>1, <2>2, DataEffect DEF TornInv
<1>9. CASE ProgramAddress
  <2>1. pc' # "addr"
    BY <1>9 DEF ProgramAddress, ReturnComplete, Return
  <2>2. QED
    BY <1>9, <2>1, AddressEffect DEF TornInv
<1>10. CASE NextVariable \/ FlashError \/ PowerLoss
  BY <1>1, <1>10 DEF NextVariable, FlashError, PowerLoss, Return, flash
<1>11. CASE UNCHANGED vars
  <2>1. WritePage' = WritePage
    BY <1>11, SamePage DEF vars, flash
  <2>2. QED
    BY <1>11, <2>1 DEF vars, flash, ram, TornInv
<1>12. QED
  BY <1>3, <1>4, <1>5, <1>6, <1>7, <1>8, <1>9, <1>10, <1>11
  DEF Next, Firmware, Sketch

-----------------------------------------------------------------------------
(* The copy loop of a transfer *)

Moved == pc \in {"next", "erase", "valid"} \/ (Storing /\ idx >= 0)

\* What the loop has passed reads the same from both pages, and the variable that is
\* written reads what was written.
CopyInv ==
  job = "transfer" =>
    /\ Storing /\ idx = -1 => cur = arg
    /\ Storing /\ idx >= 0 =>
         idx # arg.var /\ cur = [var |-> idx, val |-> InPage(slot[Other(page)], idx)]
    /\ pc = "erase" => idx = Size
    /\ Moved => InPage(slot[page], arg.var) = arg.val
    /\ Moved /\ pc # "valid" =>
         \A a \in Vars :
           a < idx /\ a # arg.var /\ InPage(slot[Other(page)], a) # Blank =>
             InPage(slot[page], a) = InPage(slot[Other(page)], a)

LEMMA ReadIs == ReadPage \in Pages => \A a \in Vars : Read(a) = InPage(slot[ReadPage], a)
  BY LookupIs DEF Read, NoPage, Pages

LEMMA CopyAddress ==
  TypeOK /\ LoopInv /\ ShapeInv /\ CopyInv /\ ProgramAddress => CopyInv'
<1> SUFFICES ASSUME TypeOK, LoopInv, CallInv, PagesInv, TornInv, CopyInv, ProgramAddress,
                    job' = "transfer"
             PROVE  CopyInv'
  BY DEF ShapeInv, CopyInv
<1>1. /\ job = "transfer" /\ pc = "addr" /\ pc' = "next" /\ idx' = idx + 1
      /\ UNCHANGED <<arg, page>>
  BY DEF ProgramAddress, ReturnComplete, Return
<1>2. idx \in -1 .. Size /\ page \in Pages /\ Other(page) \in Pages /\ Other(page) # page
  BY OtherPage DEF TypeOK
<1>3. WritePage = page
  BY <1>1, WritesTo, TypeParts DEF Storing
<1> DEFINE old == slot[Other(page)]
           new == slot[page]
<1>4. /\ slot'[Other(page)] = old
      /\ \A a \in Vars : InPage(slot'[page], a)
                           = IF a = cur.var THEN cur.val ELSE InPage(new, a)
      /\ cur.var \in Vars
  BY <1>2, <1>3, AddressEffect
<1>5. Other(page)' = Other(page) /\ arg.var \in Vars
  BY <1>1 DEF Other, TypeOK, Entry
<1>6. CASE idx = -1
  <2>1. cur = arg
    BY <1>1, <1>6 DEF CopyInv, Storing
  <2>2. InPage(slot'[page], arg.var) = arg.val
    BY <1>4, <2>1
  <2>3. \A a \in Vars : ~ (a < idx')
    BY <1>1, <1>6 DEF Vars
  <2>4. QED
    BY <1>1, <2>2, <2>3 DEF CopyInv, Moved, Storing
<1>7. CASE idx # -1
  <2>1. idx >= 0 /\ idx # arg.var /\ cur = [var |-> idx, val |-> InPage(old, idx)]
    BY <1>1, <1>2, <1>7 DEF CopyInv, Storing
  <2>2. /\ InPage(new, arg.var) = arg.val
        /\ \A a \in Vars : a < idx /\ a # arg.var /\ InPage(old, a) # Blank =>
             InPage(new, a) = InPage(old, a)
    BY <1>1, <2>1 DEF CopyInv, Storing, Moved
  <2>3. InPage(slot'[page], arg.var) = arg.val
    BY <1>4, <1>5, <2>1, <2>2
  <2>4. ASSUME NEW a \in Vars, a < idx + 1, a # arg.var, InPage(old, a) # Blank
        PROVE  InPage(slot'[page], a) = InPage(old, a)
    <3>1. CASE a = idx
      BY <1>4, <2>1, <3>1
    <3>2. CASE a # idx
      <4>1. a < idx
        BY <1>2, <2>4, <3>2 DEF Vars
      <4>2. QED
        BY <1>4, <2>1, <2>2, <2>4, <3>2, <4>1
    <3>3. QED
      BY <3>1, <3>2
  <2>5. QED
    BY <1>1, <1>4, <1>5, <2>3, <2>4 DEF CopyInv, Moved, Storing
<1>8. QED
  BY <1>6, <1>7

LEMMA CopyNext ==
  TypeOK /\ LoopInv /\ ShapeInv /\ CopyInv /\ NextVariable => CopyInv'
<1> SUFFICES ASSUME TypeOK, LoopInv, CallInv, PagesInv, CopyInv, NextVariable,
                    job' = "transfer"
             PROVE  CopyInv'
  BY DEF ShapeInv, CopyInv
<1>1. job = "transfer" /\ pc = "next" /\ UNCHANGED <<flash, job, arg, at, page>>
  BY DEF NextVariable
<1>2. /\ idx \in 0 .. Size /\ idx < Size /\ page \in Pages /\ Other(page) \in Pages
      /\ tabReady /\ arg.var \in Vars
  BY <1>1, OtherPage DEF NextVariable, TypeOK, LoopInv, Entry, CallInv
<1>3. idx \in Vars /\ Tab(idx) = idx
  BY <1>2 DEF Vars, Tab
<1>4. ReadPage = Other(page)
  BY <1>1, ReadsFrom, TypeParts
<1>5. Read(idx) = InPage(slot[Other(page)], idx)
  BY <1>2, <1>3, <1>4, ReadIs
<1>6. Skip(idx) <=> idx = arg.var
  BY <1>1, <1>3 DEF Skip
<1>7. Other(page)' = Other(page) /\ slot' = slot
  BY <1>1 DEF Other, flash
<1>8. CASE idx = arg.var \/ Read(idx) = Blank
  <2>1. pc' = "next" /\ idx' = idx + 1
    BY <1>1, <1>3, <1>6, <1>8 DEF NextVariable
  <2>2. ASSUME NEW a \in Vars, a < idx + 1, a # arg.var,
               InPage(slot[Other(page)], a) # Blank
        PROVE  InPage(slot[page], a) = InPage(slot[Other(page)], a)
    <3>1. a # idx
      BY <1>5, <1>8, <2>2
    <3>2. a < idx
      BY <1>2, <2>2, <3>1 DEF Vars
    <3>3. QED
      BY <1>1, <2>2, <3>2 DEF CopyInv, Moved
  <2>3. InPage(slot[page], arg.var) = arg.val
    BY <1>1 DEF CopyInv, Moved
  <2>4. QED
    BY <1>1, <1>7, <2>1, <2>2, <2>3 DEF CopyInv, Moved, Storing
<1>9. CASE ~ (idx = arg.var \/ Read(idx) = Blank)
  <2>1. pc' = "data" /\ idx' = idx /\ cur' = [var |-> idx, val |-> Read(idx)]
    BY <1>1, <1>3, <1>6, <1>9 DEF NextVariable
  <2>2. idx # -1 /\ idx >= 0
    BY <1>2
  <2>3. /\ InPage(slot[page], arg.var) = arg.val
        /\ \A a \in Vars :
             a < idx /\ a # arg.var /\ InPage(slot[Other(page)], a) # Blank =>
               InPage(slot[page], a) = InPage(slot[Other(page)], a)
    BY <1>1 DEF CopyInv, Moved
  <2>4. QED
    BY <1>1, <1>5, <1>7, <1>9, <2>1, <2>2, <2>3 DEF CopyInv, Moved, Storing
<1>10. QED
  BY <1>8, <1>9

LEMMA StepCopy == TypeOK /\ LoopInv /\ ShapeInv /\ CopyInv /\ [Next]_vars => CopyInv'
<1> SUFFICES ASSUME TypeOK, LoopInv, ShapeInv, CallInv, PagesInv, TornInv, CopyInv,
                    [Next]_vars
             PROVE  CopyInv'
  BY DEF ShapeInv
<1>0. /\ page \in Pages /\ Other(page) \in Pages /\ Other(page) # page
      /\ idx \in -1 .. Size /\ arg.var \in Vars /\ arg \in Entry /\ cur \in Entry
  BY OtherPage DEF TypeOK, Entry
<1>1. ASSUME NEW p \in Pages, BootOneErased(p) \/ BootRecover(p)
      PROVE  CopyInv'
  BY <1>1 DEF BootOneErased, BootRecover, CopyInv, CallInv, Booting
<1>2. CASE BootFormat \/ TidyErase \/ TidyValid \/ FormatErase0 \/ FormatValid0
           \/ FormatErase1
  BY <1>2 DEF BootFormat, TidyErase, TidyValid, FormatErase0, FormatValid0,
     FormatErase1, GoTo, ReturnComplete, Return, CopyInv, CallInv, Booting
<1>3. CASE StoreNoPage \/ MarkRefused \/ FlashError \/ PowerLoss
  BY <1>3 DEF StoreNoPage, MarkRefused, FlashError, PowerLoss, NoLocals, Return, CopyInv
<1>4. ASSUME NEW a \in Vars, NEW v \in Values, Write(a, v)
      PROVE  CopyInv'
  BY <1>4 DEF Write, CopyInv
<1>5. CASE StorePageFull
  BY <1>5 DEF StorePageFull, Return, CopyInv, Moved, Storing
<1>6. CASE MarkReceive
  <2>1. pc' = "data" /\ idx' = -1 /\ cur' = cur /\ arg' = arg /\ cur = arg
    BY <1>6 DEF MarkReceive, CallInv
  <2>2. ~ (-1 >= 0)
    OBVIOUS
  <2>3. QED
    BY <2>1, <2>2 DEF CopyInv, Moved, Storing
<1>7. CASE ProgramData
  <2>1. /\ pc = "data" /\ pc' = "addr"
        /\ UNCHANGED <<head, job, arg, cur, page, idx, tabReady, may>>
    BY <1>7 DEF ProgramData
  <2>2. \A p \in Pages, a \in Vars : InPage(slot'[p], a) = InPage(slot[p], a)
    BY <1>7, DataEffect
  <2>3. Other(page)' = Other(page)
    BY <2>1 DEF Other
  <2>4. ASSUME job = "transfer", idx >= 0
        PROVE  idx \in Vars
    BY <1>0, <2>1, <2>4 DEF LoopInv, Vars
  <2>5. ASSUME job = "transfer"
        PROVE  /\ idx = -1 => cur = arg
               /\ idx >= 0 =>
                    /\ idx # arg.var
                    /\ cur = [var |-> idx, val |-> InPage(slot'[Other(page)], idx)]
                    /\ InPage(slot'[page], arg.var) = arg.val
                    /\ \A a \in Vars :
                         a < idx /\ a # arg.var /\ InPage(slot'[Other(page)], a) # Blank
                           => InPage(slot'[page], a) = InPage(slot'[Other(page)], a)
    BY <1>0, <2>1, <2>2, <2>4, <2>5 DEF CopyInv, Moved, Storing
  <2>6. QED
    BY <2>1, <2>3, <2>5 DEF CopyInv, Moved, Storing
<1>8. CASE ProgramAddress
  BY <1>8, CopyAddress
<1>9. CASE NextVariable
  BY <1>9, CopyNext
<1>10. CASE CopiesDone
  BY <1>10 DEF CopiesDone, GoTo, flash, CopyInv, Moved, Storing, Other
<1>11. CASE EraseOld
  <2>1. CASE job = "transfer"
    <3>1. /\ pc = "erase" /\ pc' = "valid" /\ UNCHANGED <<arg, page>>
      BY <1>11, <2>1 DEF EraseOld, GoTo
    <3>2. slot'[page] = slot[page]
      BY <1>0, <1>11, EraseEffect DEF EraseOld
    <3>3. InPage(slot[page], arg.var) = arg.val
      BY <2>1, <3>1 DEF CopyInv, Moved
    <3>4. QED
      BY <3>1, <3>2, <3>3 DEF CopyInv, Moved, Storing
  <2>2. CASE job # "transfer"
    BY <1>11, <2>2 DEF EraseOld, ReturnComplete, Return, CopyInv
  <2>3. QED
    BY <2>1, <2>2
<1>12. CASE MarkValid
  BY <1>12 DEF MarkValid, GoTo, ReturnComplete, Return, CopyInv
<1>13. CASE UNCHANGED vars
  BY <1>13 DEF vars, ram, flash, CopyInv, Moved, Storing, Other
<1>14. QED
  BY <1>1, <1>2, <1>3, <1>4, <1>5, <1>6, <1>7, <1>8, <1>9, <1>10, <1>11, <1>12, <1>13
  DEF Next, Firmware, Sketch

LEMMA InitShape == Init => LoopInv /\ ShapeInv /\ CopyInv
<1> SUFFICES ASSUME Init PROVE LoopInv /\ ShapeInv /\ CopyInv
  OBVIOUS
<1>1. LoopInv /\ CallInv /\ CopyInv
  BY DEF Init, LoopInv, CallInv, CopyInv, Booting, Storing
<1>2. PagesInv
  BY DEF Init, PagesInv, Storing
<1>3. TornInv
  BY BlankHolds DEF Init, TornInv
<1>4. QED
  BY <1>1, <1>2, <1>3 DEF ShapeInv

LEMMA StepShape == TypeOK /\ LoopInv /\ ShapeInv /\ [Next]_vars => ShapeInv'
  BY StepCall, StepPages, StepTorn DEF ShapeInv

LEMMA ShapeAlways == Spec => [](TypeOK /\ LoopInv /\ ShapeInv /\ CopyInv)
  BY InitType, InitShape, StepType, StepLoop, StepShape, StepCopy, PTL DEF Spec

\* A transfer erases the old page only when all it holds is in the new one, whatever
\* failed before, and however often.
THEOREM CopiedBeforeErased == Spec => OnlyCopyNeverErased
<1> DEFINE Erases == pc = "erase" /\ job = "transfer" /\ head' # head /\ pc' = "valid" =>
              \A a \in Vars :
                IF a = arg.var
                  THEN Lookup(page, a) = arg.val
                  ELSE Lookup(Other(page), a) # Blank =>
                         Lookup(page, a) = Lookup(Other(page), a)
<1>1. TypeOK /\ CopyInv => Erases
  <2> SUFFICES ASSUME TypeOK, CopyInv, pc = "erase", job = "transfer", NEW a \in Vars
               PROVE  IF a = arg.var
                        THEN Lookup(page, a) = arg.val
                        ELSE Lookup(Other(page), a) # Blank =>
                               Lookup(page, a) = Lookup(Other(page), a)
    OBVIOUS
  <2>1. page \in Pages /\ Other(page) \in Pages
    BY OtherPage DEF TypeOK
  <2>2. a < Size
    BY DEF Vars
  <2>3. QED
    BY <2>1, <2>2, LookupIs DEF CopyInv, Moved
<1>2. TypeOK /\ LoopInv /\ ShapeInv /\ CopyInv /\ [Next]_vars => [Erases]_vars
  BY <1>1
<1>3. QED
  BY <1>2, ShapeAlways, PTL DEF Spec, OnlyCopyNeverErased

-----------------------------------------------------------------------------
(* No stale values *)

\* A page that is in use holds nothing that a completed write has replaced.
Fresh(p)  == \A a \in Vars : InPage(slot[p], a) \in may[a] \cup {Blank}
ValuesInv == \A p \in Pages : head[p] # "ERASED" => Fresh(p)

\* Once the function that started with the power has erased what it has to, an erased
\* page is blank: the erase of a page may have been cut short before.
BlankInv ==
  /\ pc \notin {"boot", "tidyErase", "fmtErase0", "fmtValid", "fmtErase1"} =>
       \A p \in Pages : head[p] = "ERASED" => slot[p] = BlankPage
  /\ pc = "fmtValid" => slot[0] = BlankPage

\* What is on its way to a page may be read.
OwnInv ==
  /\ job \in {"write", "transfer"} => arg.val \in may[arg.var]
  /\ Storing => cur.val \in may[cur.var]

\* Where two pages are in use and no variables move, the page to write is full: nothing
\* is stored again, and no write completes, before the next power loss.
Stuck   == Free(WritePage) = {}
FullInv ==
  /\ pc \in {"idle", "mark"} \/ (pc = "data" /\ job = "write") =>
       (\E p \in Pages : head[p] = "ERASED") \/ Stuck
  /\ pc = "mark" => Stuck
  /\ pc = "addr" /\ job = "write" => head[Other(WritePage)] = "ERASED"

Context == TypeOK /\ LoopInv /\ ShapeInv /\ CopyInv /\ HeaderInv /\ fails = 0

LEMMA NoErrorYet == TypeOK /\ [Next]_vars /\ fails' = 0 => fails = 0
<1> SUFFICES ASSUME TypeOK, [Next]_vars, fails' = 0, fails # 0 PROVE FALSE
  OBVIOUS
<1>1. fails \in Nat /\ ~ FlashError
  BY DEF TypeOK, FlashError
<1>2. fails' # fails
  OBVIOUS
<1>3. ~ Sober /\ ~ PowerLoss
  BY <1>2 DEF Sober, PowerLoss
<1>4. QED
  BY <1>1, <1>2, <1>3 DEF Next, Firmware, Sketch, vars, BootOneErased, BootRecover, BootFormat,
     TidyErase, TidyValid, FormatErase0, FormatValid0, FormatErase1, ProgramData,
     ProgramAddress, StoreNoPage, StorePageFull, MarkReceive, MarkRefused, NextVariable,
     CopiesDone, EraseOld, MarkValid, Write

\* Completing anything but a write does not change what may be read.
LEMMA MaySame ==
  ASSUME job \notin {"write", "transfer"}, ReturnComplete
  PROVE  may' = may
  BY DEF ReturnComplete

LEMMA StepOwn == Context /\ ValuesInv /\ OwnInv /\ [Next]_vars => OwnInv'
<1> SUFFICES ASSUME Context, TypeOK, LoopInv, CallInv, PagesInv, TornInv, HeaderInv,
                    fails = 0, ValuesInv, OwnInv, [Next]_vars
             PROVE  OwnInv'
  BY DEF Context, ShapeInv
<1> USE DEF OwnInv
<1>1. ASSUME NEW p \in Pages, BootOneErased(p) \/ BootRecover(p)
      PROVE  OwnInv'
  BY <1>1 DEF BootOneErased, BootRecover, CallInv, Booting, Storing
<1>2. CASE BootFormat \/ TidyErase \/ TidyValid \/ FormatErase0 \/ FormatValid0
           \/ FormatErase1
  BY <1>2 DEF BootFormat, TidyErase, TidyValid, FormatErase0, FormatValid0,
     FormatErase1, GoTo, ReturnComplete, Return, CallInv, Booting, Storing
<1>3. CASE CopiesDone \/ EraseOld \/ MarkValid
  BY <1>3 DEF CopiesDone, EraseOld, MarkValid, GoTo, ReturnComplete, Return, Storing
<1>4. CASE StoreNoPage \/ StorePageFull \/ MarkRefused \/ FlashError \/ PowerLoss
  BY <1>4 DEF StoreNoPage, StorePageFull, MarkRefused, FlashError, PowerLoss, Return,
     Storing
<1>5. ASSUME NEW a \in Vars, NEW v \in Values, Write(a, v)
      PROVE  OwnInv'
  <2>1. /\ arg' = [var |-> a, val |-> v] /\ cur' = arg'
        /\ may' = [may EXCEPT ![a] = @ \cup {v}]
    BY <1>5 DEF Write
  <2>2. v \in may'[a]
    BY <2>1 DEF TypeOK
  <2>3. QED
    BY <2>1, <2>2
<1>6. CASE ProgramData
  BY <1>6 DEF ProgramData, Storing
<1>7. CASE ProgramAddress
  BY <1>7 DEF ProgramAddress, ReturnComplete, Return, Storing
<1>8. CASE MarkReceive
  BY <1>8 DEF MarkReceive, CallInv, Storing
<1>9. CASE NextVariable
  <2>1. /\ pc = "next" /\ idx \in 0 .. Size /\ idx < Size /\ job \in {"transfer", "recover"}
        /\ UNCHANGED <<job, arg, may>>
    BY <1>9 DEF NextVariable, TypeOK, LoopInv, CallInv
  <2>2. Tab(idx) \in Vars
    BY <2>1 DEF Tab, Vars
  <2>3. /\ ReadPage = Other(page) /\ Other(page) \in Pages
        /\ head[Other(page)] = "VALID_PAGE"
    BY <2>1, ReadsFrom, OtherPage, TypeParts DEF TypeOK, PagesInv
  <2>4. Read(Tab(idx)) \in may[Tab(idx)] \cup {Blank}
    BY <2>2, <2>3, ReadIs DEF ValuesInv, Fresh
  <2>5. CASE Skip(idx) \/ Read(Tab(idx)) = Blank
    BY <1>9, <2>1, <2>5 DEF NextVariable, Storing
  <2>6. CASE ~ (Skip(idx) \/ Read(Tab(idx)) = Blank)
    <3>1. cur' = [var |-> Tab(idx), val |-> Read(Tab(idx))]
      BY <1>9, <2>6 DEF NextVariable
    <3>2. QED
      BY <2>1, <2>4, <2>6, <3>1
  <2>7. QED
    BY <2>5, <2>6
<1>10. CASE UNCHANGED vars
  BY <1>10 DEF vars, ram, Storing
<1>11. QED
  BY <1>1, <1>2, <1>3, <1>4, <1>5, <1>6, <1>7, <1>8, <1>9, <1>10
  DEF Next, Firmware, Sketch

LEMMA StepBlank == Context /\ BlankInv /\ [Next]_vars /\ fails' = 0 => BlankInv'
<1> SUFFICES ASSUME TypeOK, LoopInv, CallInv, PagesInv, TornInv, HeaderInv,
                    fails = 0, BlankInv, [Next]_vars, fails' = 0
             PROVE  BlankInv'
  BY DEF Context, ShapeInv
<1> DEFINE Early == {"boot", "tidyErase", "fmtErase0", "fmtValid", "fmtErase1"}
<1>0. /\ page \in Pages /\ Other(page) \in Pages /\ Other(page) # page
      /\ 0 \in Pages /\ 1 \in Pages
  BY OtherPage DEF TypeOK, Pages
<1>1. ASSUME pc \notin Early, pc' # "fmtValid", slot' = slot,
             \A p \in Pages : head'[p] = "ERASED" => head[p] = "ERASED"
      PROVE  BlankInv'
  BY <1>1 DEF BlankInv
<1>2. ASSUME pc \notin Early, pc' # "fmtValid", NEW q \in Pages, Erase(q)
      PROVE  BlankInv'
  BY <1>2, EraseEffect DEF BlankInv
<1>3. ASSUME pc' \in Early \ {"fmtValid"}
      PROVE  BlankInv'
  BY <1>3 DEF BlankInv
<1>4. ASSUME NEW p \in Pages, BootOneErased(p)
      PROVE  BlankInv'
  BY <1>3, <1>4 DEF BootOneErased
<1>5. ASSUME NEW p \in Pages, BootRecover(p)
      PROVE  BlankInv'
  <2>1. \A q \in Pages : head'[q] # "ERASED"
    BY <1>5 DEF BootRecover, flash, Pages, Other
  <2>2. QED
    BY <1>5, <2>1 DEF BootRecover, BlankInv
<1>6. CASE BootFormat \/ FormatValid0
  BY <1>3, <1>6 DEF BootFormat, FormatValid0, GoTo
<1>7. CASE TidyErase
  <2>1. /\ slot'[page] = BlankPage /\ head'[Other(page)] # "ERASED"
        /\ pc' # "fmtValid"
    BY <1>0, <1>7, EraseEffect DEF TidyErase, PagesInv, GoTo, ReturnComplete, Return
  <2>2. \A q \in Pages : q = page \/ q = Other(page)
    BY <1>0 DEF Pages, Other
  <2>3. QED
    BY <2>1, <2>2 DEF BlankInv
<1>8. CASE TidyValid
  <2>1. pc \notin Early /\ pc' # "fmtValid"
    BY <1>8 DEF TidyValid, ReturnComplete, Return
  <2>2. slot' = slot /\ \A p \in Pages : head'[p] = "ERASED" => head[p] = "ERASED"
    BY <1>0, <1>8, MarkEffect DEF TidyValid
  <2>3. QED
    BY <1>1, <2>1, <2>2
<1>9. CASE FormatErase0
  BY <1>0, <1>9, EraseEffect DEF FormatErase0, GoTo, BlankInv
<1>10. CASE FormatErase1
  <2>1. head'[0] = "VALID_PAGE" /\ slot'[1] = BlankPage /\ pc' = "idle"
    BY <1>0, <1>10, EraseEffect DEF FormatErase1, HeaderInv, ReturnComplete, Return
  <2>2. QED
    BY <2>1 DEF BlankInv, Pages
<1>11. ASSUME NEW a \in Vars, NEW v \in Values, Write(a, v)
       PROVE  BlankInv'
  BY <1>1, <1>11 DEF Write, flash
<1>12. CASE ProgramData
  <2>1. head' = head /\ WritePage \in Pages /\ head[WritePage] # "ERASED"
    BY <1>12, WritePageType DEF ProgramData, WritePage, NoPage
  <2>2. \A p \in Pages : p # WritePage => slot'[p] = slot[p]
    BY <1>12, <2>1 DEF ProgramData, TypeOK
  <2>3. QED
    BY <1>12, <2>1, <2>2 DEF ProgramData, BlankInv
<1>13. CASE ProgramAddress
  <2>1. head' = head /\ WritePage \in Pages /\ head[WritePage] # "ERASED"
    BY <1>13, WritePageType DEF ProgramAddress, TornInv, WritePage, NoPage
  <2>2. \A p \in Pages : p # WritePage => slot'[p] = slot[p]
    BY <1>13, AddressEffect
  <2>3. pc' # "fmtValid"
    BY <1>13 DEF ProgramAddress, ReturnComplete, Return
  <2>4. QED
    BY <1>13, <2>1, <2>2, <2>3 DEF ProgramAddress, BlankInv
<1>14. CASE StoreNoPage \/ StorePageFull \/ MarkRefused \/ CopiesDone \/ NextVariable
  BY <1>1, <1>14 DEF StoreNoPage, StorePageFull, MarkRefused, CopiesDone, NextVariable,
     Return, GoTo, flash
<1>15. CASE MarkReceive \/ MarkValid
  <2>1. pc \notin Early /\ pc' # "fmtValid"
    BY <1>15 DEF MarkReceive, MarkValid, GoTo, ReturnComplete, Return
  <2>2. slot' = slot /\ \A p \in Pages : head'[p] = "ERASED" => head[p] = "ERASED"
    BY <1>0, <1>15, MarkEffect DEF MarkReceive, MarkValid
  <2>3. QED
    BY <1>1, <2>1, <2>2
<1>16. CASE EraseOld
  <2>1. pc \notin Early /\ pc' # "fmtValid"
    BY <1>16 DEF EraseOld, GoTo, ReturnComplete, Return
  <2>2. QED
    BY <1>0, <1>2, <1>16, <2>1 DEF EraseOld
<1>17. CASE FlashError \/ PowerLoss
  BY <1>3, <1>17 DEF FlashError, PowerLoss
<1>18. CASE UNCHANGED vars
  BY <1>18 DEF vars, flash, ram, BlankInv
<1>19. QED
  BY <1>4, <1>5, <1>6, <1>7, <1>8, <1>9, <1>10, <1>11, <1>12, <1>13, <1>14, <1>15,
     <1>16, <1>17, <1>18 DEF Next, Firmware, Sketch

LEMMA StepFull == Context /\ FullInv /\ [Next]_vars /\ fails' = 0 => FullInv'
<1> SUFFICES ASSUME TypeOK, LoopInv, CallInv, PagesInv, TornInv, HeaderInv,
                    fails = 0, FullInv, [Next]_vars, fails' = 0
             PROVE  FullInv'
  BY DEF Context, ShapeInv
<1>0. /\ page \in Pages /\ Other(page) \in Pages /\ Other(page) # page
      /\ 0 \in Pages /\ 1 \in Pages /\ head \in [Pages -> Heads]
  BY OtherPage DEF TypeOK, Pages
<1> DEFINE Some == \E p \in Pages : head[p] = "ERASED"
<1>1. ASSUME flash' = flash
      PROVE  (Stuck' <=> Stuck) /\ (Some' <=> Some) /\ WritePage' = WritePage
  BY <1>1, SamePage DEF flash, Stuck, Free
<1>2. ASSUME pc' = "idle", \E p \in Pages : head'[p] = "ERASED"
      PROVE  FullInv'
  BY <1>2 DEF FullInv
<1>3. ASSUME pc' \notin {"idle", "mark", "data", "addr"}
      PROVE  FullInv'
  BY <1>3 DEF FullInv
<1>4. ASSUME pc' \in {"data", "addr"}, job' \in {"transfer", "recover"}
      PROVE  FullInv'
  BY <1>4 DEF FullInv
<1>5. ASSUME pc' = "idle", flash' = flash, Some \/ Stuck
      PROVE  FullInv'
  BY <1>1, <1>5 DEF FullInv
<1>6. ASSUME NEW p \in Pages, BootOneErased(p) \/ BootRecover(p)
      PROVE  FullInv'
  BY <1>3, <1>6 DEF BootOneErased, BootRecover
<1>7. CASE BootFormat \/ FormatErase0 \/ FormatValid0 \/ CopiesDone
  BY <1>3, <1>7 DEF BootFormat, FormatErase0, FormatValid0, CopiesDone, GoTo
<1>8. CASE TidyErase \/ FormatErase1
  <2>1. \E p \in Pages : head'[p] = "ERASED"
    BY <1>0, <1>8, EraseEffect DEF TidyErase, FormatErase1
  <2>2. pc' = "idle" \/ pc' = "tidyValid"
    BY <1>8 DEF TidyErase, FormatErase1, GoTo, ReturnComplete, Return
  <2>3. QED
    BY <1>2, <1>3, <2>1, <2>2
<1>9. CASE TidyValid
  <2>1. head'[page] = "ERASED" /\ pc' = "idle"
    BY <1>0, <1>9, MarkEffect DEF TidyValid, PagesInv, ReturnComplete, Return
  <2>2. QED
    BY <1>0, <1>2, <2>1
<1>10. ASSUME NEW a \in Vars, NEW v \in Values, Write(a, v)
       PROVE  FullInv'
  BY <1>1, <1>10 DEF Write, FullInv
<1>11. CASE ProgramData
  <2>1. /\ head' = head /\ job' = job /\ pc = "data" /\ pc' = "addr" /\ ~ Stuck
        /\ WritePage # NoPage
    BY <1>11 DEF ProgramData, Stuck
  <2>2. WritePage' = WritePage /\ WritePage \in Pages /\ head[WritePage] # "ERASED"
    BY <2>1, SamePage, WritePageType DEF WritePage, NoPage
  <2>3. job = "write" => Some
    BY <2>1 DEF FullInv
  <2>4. \A p \in Pages : p = WritePage \/ p = Other(WritePage)
    BY <2>2 DEF Pages, Other
  <2>5. job = "write" => head[Other(WritePage)] = "ERASED"
    BY <2>2, <2>3, <2>4
  <2>6. (head[Other(WritePage)])' = head[Other(WritePage)]
    BY <2>1, <2>2 DEF Other
  <2>7. QED
    BY <2>1, <2>5, <2>6 DEF FullInv
<1>12. CASE ProgramAddress
  <2>1. CASE job = "write"
    <3>1. head' = head /\ pc' = "idle" /\ pc = "addr"
      BY <1>12, <2>1 DEF ProgramAddress, ReturnComplete, Return
    <3>2. Other(WritePage) \in Pages /\ head[Other(WritePage)] = "ERASED"
      BY <2>1, <3>1, WritePageType, OtherPage DEF FullInv, TornInv
    <3>3. QED
      BY <1>2, <3>1, <3>2
  <2>2. CASE job # "write"
    BY <1>3, <1>12, <2>2 DEF ProgramAddress
  <2>3. QED
    BY <2>1, <2>2
<1>13. CASE StoreNoPage
  <2>1. WritePage # NoPage
    BY <1>13, ValidPage DEF StoreNoPage, HeaderInv
  <2>2. QED
    BY <1>13, <2>1 DEF StoreNoPage
<1>14. CASE StorePageFull
  <2>1. Stuck /\ flash' = flash
    BY <1>14 DEF StorePageFull, Stuck
  <2>2. CASE pc' = "mark"
    BY <1>1, <2>1, <2>2 DEF FullInv
  <2>3. CASE pc' = "idle"
    BY <1>5, <2>1, <2>3
  <2>4. QED
    BY <1>14, <2>2, <2>3 DEF StorePageFull, Return
<1>15. CASE MarkRefused
  BY <1>5, <1>15 DEF MarkRefused, Return, FullInv
<1>16. CASE MarkReceive
  BY <1>4, <1>16 DEF MarkReceive, CallInv
<1>17. CASE NextVariable
  <2>1. job' \in {"transfer", "recover"} /\ (pc' = "next" \/ pc' = "data")
    BY <1>17 DEF NextVariable, CallInv
  <2>2. QED
    BY <1>3, <1>4, <2>1
<1>18. CASE EraseOld
  <2>1. \E p \in Pages : head'[p] = "ERASED"
    BY <1>0, <1>18, EraseEffect DEF EraseOld
  <2>2. pc' = "idle" \/ pc' = "valid"
    BY <1>18 DEF EraseOld, GoTo, ReturnComplete, Return
  <2>3. QED
    BY <1>2, <1>3, <2>1, <2>2
<1>19. CASE MarkValid
  <2>1. CASE job = "transfer"
    <3>1. head'[Other(page)] = "ERASED" /\ pc' = "idle"
      BY <1>0, <1>19, <2>1, MarkEffect DEF MarkValid, PagesInv, ReturnComplete, Return
    <3>2. QED
      BY <1>0, <1>2, <3>1
  <2>2. CASE job # "transfer"
    BY <1>3, <1>19, <2>2 DEF MarkValid, GoTo
  <2>3. QED
    BY <2>1, <2>2
<1>20. CASE FlashError \/ PowerLoss
  BY <1>3, <1>20 DEF FlashError, PowerLoss
<1>21. CASE UNCHANGED vars
  BY <1>1, <1>21 DEF vars, flash, ram, FullInv, Other
<1>22. QED
  BY <1>6, <1>7, <1>8, <1>9, <1>10, <1>11, <1>12, <1>13, <1>14, <1>15, <1>16, <1>17,
     <1>18, <1>19, <1>20, <1>21 DEF Next, Firmware, Sketch

LEMMA StepValues ==
  Context /\ ValuesInv /\ BlankInv /\ OwnInv /\ FullInv /\ [Next]_vars /\ fails' = 0
    => ValuesInv'
<1> SUFFICES ASSUME TypeOK, CallInv, PagesInv, TornInv, CopyInv, HeaderInv,
                    fails = 0, ValuesInv, BlankInv, OwnInv, FullInv, [Next]_vars,
                    fails' = 0
             PROVE  ValuesInv'
  BY DEF Context, ShapeInv
<1>0. /\ page \in Pages /\ Other(page) \in Pages /\ Other(page) # page
      /\ 0 \in Pages /\ 1 \in Pages /\ arg.var \in Vars
      /\ \A p \in Pages : p = page \/ p = Other(page)
  BY OtherPage DEF TypeOK, Pages, Entry, Other
<1>1. ASSUME slot' = slot, \A a \in Vars : may[a] \subseteq may'[a],
             \A p \in Pages : head'[p] # "ERASED" => head[p] # "ERASED"
      PROVE  ValuesInv'
  BY <1>1 DEF ValuesInv, Fresh
<1>2. ASSUME NEW q \in Pages, Erase(q), may' = may
      PROVE  ValuesInv'
  BY <1>2, EraseEffect DEF ValuesInv, Fresh
<1>3. ASSUME NEW p \in Pages, BootOneErased(p) \/ BootRecover(p)
      PROVE  ValuesInv'
  BY <1>1, <1>3 DEF BootOneErased, BootRecover, flash
<1>4. CASE BootFormat \/ StoreNoPage \/ StorePageFull \/ MarkRefused \/ CopiesDone
           \/ NextVariable
  BY <1>1, <1>4 DEF BootFormat, StoreNoPage, StorePageFull, MarkRefused, CopiesDone,
     NextVariable, GoTo, flash
<1>5. CASE TidyErase \/ FormatErase0 \/ FormatErase1
  <2>1. may' = may
    BY <1>5, MaySame DEF TidyErase, FormatErase0, FormatErase1, GoTo, CallInv, Booting
  <2>2. QED
    BY <1>0, <1>2, <1>5, <2>1 DEF TidyErase, FormatErase0, FormatErase1
<1>6. CASE TidyValid
  <2>1. may' = may /\ head[Other(page)] # "ERASED"
    BY <1>6, MaySame DEF TidyValid, CallInv, Booting, PagesInv
  <2>2. slot' = slot /\ \A p \in Pages : p # Other(page) => head'[p] = head[p]
    BY <1>0, <1>6, MarkEffect DEF TidyValid
  <2>3. QED
    BY <1>1, <2>1, <2>2
<1>7. CASE FormatValid0
  <2>1. may' = may /\ slot[0] = BlankPage
    BY <1>7 DEF FormatValid0, GoTo, BlankInv
  <2>2. slot' = slot /\ \A p \in Pages : p # 0 => head'[p] = head[p]
    BY <1>0, <1>7, MarkEffect DEF FormatValid0
  <2>3. \A a \in Vars : InPage(slot'[0], a) = Blank
    BY <2>1, <2>2, BlankHolds
  <2>4. QED
    BY <2>1, <2>2, <2>3 DEF ValuesInv, Fresh
<1>8. ASSUME NEW a \in Vars, NEW v \in Values, Write(a, v)
      PROVE  ValuesInv'
  <2>1. \A b \in Vars : may[b] \subseteq may'[b]
    BY <1>8 DEF Write, TypeOK
  <2>2. QED
    BY <1>1, <1>8, <2>1 DEF Write, flash
<1>9. CASE ProgramData
  <2>1. \A p \in Pages, a \in Vars : InPage(slot'[p], a) = InPage(slot[p], a)
    BY <1>9, DataEffect
  <2>2. QED
    BY <1>9, <2>1 DEF ProgramData, ValuesInv, Fresh
<1>10. CASE ProgramAddress
  <2>1. /\ WritePage \in Pages /\ cur.var \in Vars /\ head' = head /\ pc = "addr"
        /\ \A p \in Pages : p # WritePage => slot'[p] = slot[p]
        /\ \A a \in Vars : InPage(slot'[WritePage], a)
             = IF a = cur.var THEN cur.val ELSE InPage(slot[WritePage], a)
    BY <1>10, AddressEffect DEF ProgramAddress
  <2>2. head[WritePage] # "ERASED"
    BY <2>1 DEF WritePage, Pages, NoPage
  <2>3. \A a \in Vars : InPage(slot[WritePage], a) \in may[a] \cup {Blank}
    BY <2>1, <2>2 DEF ValuesInv, Fresh
  <2>4. CASE job = "write"
    <3>1. /\ cur = arg /\ head[Other(WritePage)] = "ERASED"
          /\ may' = [may EXCEPT ![arg.var] = {arg.val}]
      BY <1>10, <2>1, <2>4 DEF CallInv, FullInv, ProgramAddress, ReturnComplete
    <3>2. \A p \in Pages : p = WritePage \/ p = Other(WritePage)
      BY <2>1 DEF Pages, Other
    <3>3. may'[arg.var] = {arg.val} /\ \A a \in Vars : a # arg.var => may'[a] = may[a]
      BY <3>1 DEF TypeOK, Entry
    <3>4. \A a \in Vars : InPage(slot'[WritePage], a) \in may'[a] \cup {Blank}
      BY <2>1, <2>3, <3>1, <3>3
    <3>5. QED
      BY <2>1, <3>1, <3>2, <3>4 DEF ValuesInv, Fresh
  <2>5. CASE job # "write"
    <3>1. may' = may
      BY <1>10, <2>5 DEF ProgramAddress
    <3>2. cur.val \in may[cur.var]
      BY <2>1 DEF OwnInv, Storing
    <3>3. \A a \in Vars : InPage(slot'[WritePage], a) \in may'[a] \cup {Blank}
      BY <2>1, <2>3, <3>1, <3>2
    <3>4. \A p \in Pages : head[p] # "ERASED" => Fresh(p)'
      BY <2>1, <3>1, <3>3 DEF ValuesInv, Fresh
    <3>5. QED
      BY <2>1, <3>4 DEF ValuesInv
  <2>6. QED
    BY <2>4, <2>5
<1>11. CASE MarkReceive
  <2>1. may' = may /\ slot[page] = BlankPage
    BY <1>0, <1>11 DEF MarkReceive, BlankInv
  <2>2. slot' = slot /\ \A p \in Pages : p # page => head'[p] = head[p]
    BY <1>0, <1>11, MarkEffect DEF MarkReceive
  <2>3. \A a \in Vars : InPage(slot'[page], a) = Blank
    BY <2>1, <2>2, BlankHolds
  <2>4. \A p \in Pages : head'[p] # "ERASED" => Fresh(p)'
    BY <2>1, <2>2, <2>3 DEF ValuesInv, Fresh
  <2>5. QED
    BY <2>4 DEF ValuesInv
<1>12. CASE EraseOld
  <2>1. may' = may
    BY <1>12, MaySame DEF EraseOld, GoTo, CallInv
  <2>2. QED
    BY <1>0, <1>2, <1>12, <2>1 DEF EraseOld
<1>13. CASE MarkValid
  <2>1. slot' = slot /\ \A p \in Pages : p # page => head'[p] = head[p]
    BY <1>0, <1>13, MarkEffect DEF MarkValid
  <2>2. head[page] # "ERASED"
    BY <1>13 DEF MarkValid, PagesInv
  <2>3. CASE job = "transfer"
    <3>1. /\ head'[Other(page)] = "ERASED" /\ InPage(slot[page], arg.var) = arg.val
          /\ may' = [may EXCEPT ![arg.var] = {arg.val}]
      BY <1>0, <1>13, <2>1, <2>3 DEF MarkValid, PagesInv, CopyInv, Moved, ReturnComplete
    <3>2. may'[arg.var] = {arg.val} /\ \A a \in Vars : a # arg.var => may'[a] = may[a]
      BY <1>0, <3>1 DEF TypeOK
    <3>3. \A a \in Vars : InPage(slot[page], a) \in may[a] \cup {Blank}
      BY <1>0, <2>2 DEF ValuesInv, Fresh
    <3>4. \A a \in Vars : InPage(slot'[page], a) \in may'[a] \cup {Blank}
      BY <2>1, <3>1, <3>2, <3>3
    <3>5. \A p \in Pages : head'[p] # "ERASED" => p = page
      BY <1>0, <3>1
    <3>6. \A p \in Pages : head'[p] # "ERASED" =>
            \A a \in Vars : InPage(slot'[p], a) \in may'[a] \cup {Blank}
      BY <3>4, <3>5
    <3>7. QED
      BY <3>6 DEF ValuesInv, Fresh
  <2>4. CASE job # "transfer"
    <3>1. may' = may
      BY <1>13, <2>4 DEF MarkValid, GoTo
    <3>2. QED
      BY <1>1, <2>1, <2>2, <3>1
  <2>5. QED
    BY <2>3, <2>4
<1>14. CASE FlashError \/ PowerLoss
  <2>1. /\ slot' = slot /\ may' = may
        /\ \A p \in Pages : head'[p] # "ERASED" => head'[p] = head[p]
    BY <1>14 DEF FlashError, PowerLoss, flash, TypeOK
  <2>2. QED
    BY <1>1, <2>1
<1>15. CASE UNCHANGED vars
  BY <1>1, <1>15 DEF vars, flash
<1>16. QED
  BY <1>3, <1>4, <1>5, <1>6, <1>7, <1>8, <1>9, <1>10, <1>11, <1>12, <1>13, <1>14, <1>15
  DEF Next, Firmware, Sketch

FreshInv == fails = 0 => ValuesInv /\ BlankInv /\ OwnInv /\ FullInv

LEMMA InitFresh == Init => FreshInv
<1> SUFFICES ASSUME Init PROVE ValuesInv /\ BlankInv /\ OwnInv /\ FullInv
  BY DEF FreshInv
<1>1. ValuesInv /\ OwnInv
  BY DEF Init, ValuesInv, OwnInv, Storing
<1>2. BlankInv /\ FullInv
  BY DEF Init, BlankInv, FullInv
<1>3. QED
  BY <1>1, <1>2

LEMMA StepFresh ==
  TypeOK /\ LoopInv /\ ShapeInv /\ CopyInv /\ HeaderInv /\ FreshInv /\ [Next]_vars
    => FreshInv'
<1> SUFFICES ASSUME TypeOK, LoopInv, ShapeInv, CopyInv, HeaderInv, FreshInv, [Next]_vars,
                    fails' = 0
             PROVE  ValuesInv' /\ BlankInv' /\ OwnInv' /\ FullInv'
  BY DEF FreshInv
<1>1. fails = 0
  BY NoErrorYet
<1>2. Context /\ ValuesInv /\ BlankInv /\ OwnInv /\ FullInv
  BY <1>1 DEF Context, FreshInv
<1>3. QED
  BY <1>2, StepOwn, StepBlank, StepFull, StepValues

LEMMA FreshAlways ==
  Spec => [](TypeOK /\ LoopInv /\ ShapeInv /\ CopyInv /\ HeaderInv /\ FreshInv)
<1>1. Init => HeaderInv
  BY DEF Init, HeaderInv
<1>2. QED
  BY <1>1, InitFresh, ShapeAlways, StepHeader, StepFresh, PTL DEF Spec

\* A value that a completed write has replaced is never read again, however often and
\* wherever power is lost, as long as no flash operation fails.
THEOREM NothingStale == Spec => []NoStaleValue
<1>1. TypeOK /\ HeaderInv /\ FreshInv => NoStaleValue
  <2> SUFFICES ASSUME TypeOK, HeaderInv, FreshInv, pc = "idle", fails = 0, NEW a \in Vars
               PROVE  Read(a) \in may[a] \cup {Blank}
    BY DEF NoStaleValue
  <2>1. ReadPage \in Pages /\ head[ReadPage] = "VALID_PAGE"
    BY ValidPage DEF HeaderInv
  <2>2. QED
    BY <2>1, ReadIs DEF FreshInv, ValuesInv, Fresh
<1>2. QED
  BY <1>1, FreshAlways, PTL

-----------------------------------------------------------------------------
(* Durability *)

\* A page with all that completed writes have stored.
Whole(p)   == \A a \in Vars : InPage(slot[p], a) \in may[a]
NothingYet == \A a \in Vars : Blank \in may[a]

\* As long as power has not been lost with two pages in use: there is no recovery; a
\* valid page is whole, and so is the new page of a transfer from the moment its old
\* one may be erased; when power returns, the page that is not erased is whole, and
\* pages are formatted only before the first write.
KeptInv ==
  fails = 0 /\ kept =>
    /\ job # "recover"
    /\ Booting =>
         /\ \E p \in Pages : head[p] = "ERASED"
         /\ \A p \in Pages : head[p] # "ERASED" => Whole(p)
    /\ ~ Booting => \A p \in Pages : head[p] = "VALID_PAGE" => Whole(p)
    /\ pc \in {"erase", "valid"} => Whole(page)
    /\ (\A p \in Pages : head[p] = "ERASED") => NothingYet
    /\ pc \in {"fmtErase0", "fmtValid", "fmtErase1"} => NothingYet /\ head[1] = "ERASED"

\* Each part of KeptInv after a step.
LEMMA KeptParts ==
  ASSUME job' # "recover",
         Booting' =>
           /\ \E p \in Pages : head'[p] = "ERASED"
           /\ \A p \in Pages : head'[p] # "ERASED" =>
                \A a \in Vars : InPage(slot'[p], a) \in may'[a],
         ~ Booting' => \A p \in Pages : head'[p] = "VALID_PAGE" =>
                         \A a \in Vars : InPage(slot'[p], a) \in may'[a],
         pc' \in {"erase", "valid"} => \A a \in Vars : InPage(slot'[page'], a) \in may'[a],
         (\A p \in Pages : head'[p] = "ERASED") => \A a \in Vars : Blank \in may'[a],
         pc' \in {"fmtErase0", "fmtValid", "fmtErase1"} =>
           head'[1] = "ERASED" /\ \A a \in Vars : Blank \in may'[a]
  PROVE  KeptInv'
  BY DEF KeptInv, Whole, NothingYet

LEMMA LossKept ==
  ASSUME TypeOK, CallInv, PagesInv, HeaderInv, fails = 0, kept, KeptInv, PowerLoss, kept'
  PROVE  KeptInv'
<1>0. /\ page \in Pages /\ Other(page) \in Pages /\ Other(page) # page
      /\ 0 \in Pages /\ 1 \in Pages /\ head \in [Pages -> Heads]
      /\ \A p \in Pages : p = page \/ p = Other(page)
  BY OtherPage DEF TypeOK, Pages, Other
<1>1. /\ slot' = slot /\ may' = may /\ pc' = "boot" /\ job' = "init"
      /\ \E p \in Pages : head'[p] = "ERASED"
  BY DEF PowerLoss
<1>2. head' = head \/ (Erasing # NoPage /\ head' = [head EXCEPT ![Erasing] = "ERASED"])
  BY DEF PowerLoss
<1>3. \A p \in Pages : head'[p] # "ERASED" => head'[p] = head[p]
  BY <1>0, <1>2
<1>4. job # "recover"
  BY DEF KeptInv
<1>5. \A p \in Pages : head'[p] # "ERASED" => Whole(p)
  <2>1. CASE Booting
    BY <1>3, <2>1 DEF KeptInv
  <2>2. CASE pc \in {"idle", "data", "addr", "next", "mark"}
    <3>1. Erasing = NoPage
      BY <2>2 DEF Erasing
    <3>2. head' = head
      BY <1>2, <3>1
    <3>3. HasValid
      BY <1>0, <2>2 DEF HeaderInv, HasValid, PagesInv
    <3>4. ASSUME NEW p \in Pages, head[p] # "ERASED"
          PROVE  head[p] = "VALID_PAGE"
      <4>1. PICK q \in Pages : head[q] = "ERASED"
        BY <1>1, <3>2
      <4>2. PICK r \in Pages : head[r] = "VALID_PAGE"
        BY <3>3 DEF HasValid
      <4>3. p # q /\ r # q
        BY <3>4, <4>1, <4>2
      <4>4. p = r
        BY <4>3 DEF Pages
      <4>5. QED
        BY <4>2, <4>4
    <3>5. ~ Booting
      BY <2>2 DEF Booting
    <3>6. QED
      BY <3>2, <3>4, <3>5 DEF KeptInv
  <2>3. CASE pc \in {"erase", "valid"}
    <3>1. job = "transfer" /\ Whole(page)
      BY <1>4, <2>3 DEF CallInv, KeptInv
    <3>2. head'[Other(page)] = "ERASED"
      <4>1. CASE pc = "valid"
        <5>1. head[Other(page)] = "ERASED" /\ Erasing = NoPage
          BY <3>1, <4>1 DEF PagesInv, Erasing
        <5>2. QED
          BY <1>2, <5>1
      <4>2. CASE pc = "erase"
        <5>1. head[page] = "RECEIVE_DATA" /\ Erasing = Other(page)
          BY <3>1, <4>2 DEF PagesInv, Erasing
        <5>2. head'[page] = "RECEIVE_DATA"
          BY <1>0, <1>2, <5>1
        <5>3. QED
          BY <1>0, <1>1, <5>2
      <4>3. QED
        BY <2>3, <4>1, <4>2
    <3>3. QED
      BY <1>0, <3>1, <3>2
  <2>4. QED
    BY <2>1, <2>2, <2>3 DEF TypeOK, Labels, Booting
<1>6. ASSUME \A p \in Pages : head'[p] = "ERASED"
      PROVE  NothingYet
  <2>1. CASE pc \in {"fmtErase0", "fmtValid", "fmtErase1"}
    BY <2>1 DEF KeptInv
  <2>2. CASE pc = "tidyErase"
    <3>1. Erasing = page /\ head[page] = "ERASED" /\ head[Other(page)] # "ERASED"
      BY <2>2 DEF Erasing, PagesInv
    <3>2. head'[Other(page)] # "ERASED"
      BY <1>0, <1>2, <3>1
    <3>3. QED
      BY <1>0, <1>6, <3>2
  <2>3. CASE pc = "erase"
    <3>1. Erasing = Other(page) /\ head[page] = "RECEIVE_DATA"
      BY <1>4, <2>3 DEF Erasing, PagesInv, CallInv
    <3>2. head'[page] # "ERASED"
      BY <1>0, <1>2, <3>1
    <3>3. QED
      BY <1>0, <1>6, <3>2
  <2>4. CASE pc \notin {"fmtErase0", "fmtValid", "fmtErase1", "tidyErase", "erase"}
    <3>1. Erasing = NoPage
      BY <2>4 DEF Erasing
    <3>2. QED
      BY <1>2, <1>6, <3>1 DEF KeptInv
  <2>5. QED
    BY <2>1, <2>2, <2>3, <2>4
<1>7. pc' \notin {"erase", "valid", "fmtErase0", "fmtValid", "fmtErase1"} /\ Booting'
  BY <1>1 DEF Booting
<1>8. QED
  BY <1>1, <1>5, <1>6, <1>7, KeptParts DEF Whole, NothingYet

LEMMA FinishKept ==
  ASSUME TypeOK, CallInv, PagesInv, CopyInv, HeaderInv, ValuesInv, BlankInv, OwnInv, FullInv,
         TornInv, fails = 0, kept, KeptInv,
         CopiesDone \/ EraseOld \/ MarkValid \/ MarkReceive \/ ProgramAddress
  PROVE  KeptInv'
<1>0. /\ page \in Pages /\ Other(page) \in Pages /\ Other(page) # page
      /\ arg.var \in Vars
      /\ \A p \in Pages : p = page \/ p = Other(page)
  BY OtherPage DEF TypeOK, Pages, Other, Entry
<1>1. /\ job # "recover"
      /\ ~ Booting => \A p \in Pages : head[p] = "VALID_PAGE" =>
                        \A a \in Vars : InPage(slot[p], a) \in may[a]
      /\ pc \in {"erase", "valid"} => \A a \in Vars : InPage(slot[page], a) \in may[a]
  BY DEF KeptInv, Whole
<1>2. ~ Booting /\ ~ Booting' /\ pc' \notin {"fmtErase0", "fmtValid", "fmtErase1"}
  BY DEF Booting, CopiesDone, EraseOld, MarkValid, MarkReceive, ProgramAddress, GoTo,
     ReturnComplete, Return
<1>3. job' # "recover"
  BY <1>1 DEF CopiesDone, EraseOld, MarkValid, MarkReceive, ProgramAddress, GoTo,
     ReturnComplete, Return
<1>4. CASE CopiesDone
  <2>1. /\ pc = "next" /\ idx = Size /\ job = "transfer" /\ pc' = "erase"
        /\ UNCHANGED <<slot, head, may, page>>
    BY <1>1, <1>4 DEF CopiesDone, CallInv, GoTo, flash
  <2>2. head[page] = "RECEIVE_DATA" /\ head[Other(page)] = "VALID_PAGE"
    BY <2>1 DEF PagesInv
  <2>3. ASSUME NEW a \in Vars
        PROVE  InPage(slot[page], a) \in may[a]
    <3>1. a < idx
      BY <2>1 DEF Vars
    <3>2. InPage(slot[page], a) \in may[a] \cup {Blank}
      BY <1>0, <2>2 DEF ValuesInv, Fresh
    <3>3. InPage(slot[Other(page)], a) \in may[a]
      BY <1>0, <1>1, <1>2, <2>2
    <3>4. CASE a = arg.var
      BY <2>1, <3>4 DEF CopyInv, Moved, OwnInv
    <3>5. CASE a # arg.var /\ InPage(slot[Other(page)], a) # Blank
      BY <2>1, <3>1, <3>3, <3>5 DEF CopyInv, Moved
    <3>6. CASE InPage(slot[Other(page)], a) = Blank
      BY <3>2, <3>3, <3>6
    <3>7. QED
      BY <3>4, <3>5, <3>6
  <2>4. ~ (\A p \in Pages : head'[p] = "ERASED")
    BY <1>0, <2>1, <2>2
  <2>5. QED
    BY <1>1, <1>2, <1>3, <2>1, <2>3, <2>4, KeptParts
<1>5. CASE EraseOld
  <2>1. /\ pc = "erase" /\ job = "transfer" /\ pc' = "valid" /\ UNCHANGED <<may, page>>
        /\ head[page] = "RECEIVE_DATA"
    BY <1>1, <1>5 DEF EraseOld, CallInv, GoTo, PagesInv
  <2>2. /\ slot'[page] = slot[page] /\ head'[page] = head[page]
        /\ head'[Other(page)] = "ERASED"
    BY <1>0, <1>5, EraseEffect DEF EraseOld
  <2>3. \A p \in Pages : head'[p] # "VALID_PAGE"
    BY <1>0, <2>1, <2>2
  <2>4. ~ (\A p \in Pages : head'[p] = "ERASED")
    BY <1>0, <2>1, <2>2
  <2>5. QED
    BY <1>1, <1>2, <1>3, <2>1, <2>2, <2>3, <2>4, KeptParts
<1>6. CASE MarkValid
  <2>1. /\ pc = "valid" /\ job = "transfer" /\ pc' = "idle"
        /\ may' = [may EXCEPT ![arg.var] = {arg.val}]
        /\ head[Other(page)] = "ERASED" /\ InPage(slot[page], arg.var) = arg.val
    BY <1>1, <1>6 DEF MarkValid, CallInv, ReturnComplete, Return, PagesInv, CopyInv, Moved
  <2>2. /\ slot' = slot /\ head'[page] = "VALID_PAGE"
        /\ head'[Other(page)] = "ERASED"
    BY <1>0, <1>6, <2>1, MarkEffect DEF MarkValid
  <2>3. may'[arg.var] = {arg.val} /\ \A a \in Vars : a # arg.var => may'[a] = may[a]
    BY <1>0, <2>1 DEF TypeOK
  <2>4. \A a \in Vars : InPage(slot'[page], a) \in may'[a]
    BY <1>1, <2>1, <2>2, <2>3
  <2>5. /\ \A p \in Pages : head'[p] = "VALID_PAGE" => p = page
        /\ ~ (\A p \in Pages : head'[p] = "ERASED")
    BY <1>0, <2>2
  <2>6. QED
    BY <1>2, <1>3, <2>1, <2>4, <2>5, KeptParts
<1>7. CASE MarkReceive
  <2>1. /\ pc' = "data" /\ may' = may /\ slot' = slot /\ head'[page] = "RECEIVE_DATA"
        /\ head'[Other(page)] = head[Other(page)]
    BY <1>0, <1>7, MarkEffect DEF MarkReceive
  <2>2. \A p \in Pages : head'[p] = "VALID_PAGE" => head[p] = "VALID_PAGE"
    BY <1>0, <2>1
  <2>3. ~ (\A p \in Pages : head'[p] = "ERASED")
    BY <1>0, <2>1
  <2>4. QED
    BY <1>1, <1>2, <1>3, <2>1, <2>2, <2>3, KeptParts
<1>8. CASE ProgramAddress
  <2>1. /\ WritePage \in Pages /\ cur.var \in Vars /\ head' = head /\ pc = "addr"
        /\ \A p \in Pages : p # WritePage => slot'[p] = slot[p]
        /\ \A a \in Vars : InPage(slot'[WritePage], a)
             = IF a = cur.var THEN cur.val ELSE InPage(slot[WritePage], a)
    BY <1>8, AddressEffect DEF ProgramAddress
  <2>2. ~ (\A p \in Pages : head'[p] = "ERASED")
    BY <2>1 DEF WritePage, Pages, NoPage
  <2>3. CASE job = "write"
    <3>1. /\ cur = arg /\ head[Other(WritePage)] = "ERASED" /\ pc' = "idle"
          /\ may' = [may EXCEPT ![arg.var] = {arg.val}]
      BY <1>8, <2>1, <2>3 DEF CallInv, FullInv, ProgramAddress, ReturnComplete, Return
    <3>2. \A p \in Pages : p = WritePage \/ p = Other(WritePage)
      BY <2>1 DEF Pages, Other
    <3>3. may'[arg.var] = {arg.val} /\ \A a \in Vars : a # arg.var => may'[a] = may[a]
      BY <1>0, <3>1 DEF TypeOK
    <3>4. head[WritePage] = "VALID_PAGE" =>
            \A a \in Vars : InPage(slot'[WritePage], a) \in may'[a]
      BY <1>1, <1>2, <2>1, <3>1, <3>3
    <3>5. \A p \in Pages : head'[p] = "VALID_PAGE" => p = WritePage
      BY <2>1, <3>1, <3>2
    <3>6. QED
      BY <1>2, <1>3, <2>1, <2>2, <3>1, <3>4, <3>5, KeptParts
  <2>4. CASE job # "write"
    <3>1. job = "transfer" /\ may' = may /\ pc' = "next"
      BY <1>1, <1>8, <2>1, <2>4 DEF ProgramAddress, CallInv, Storing
    <3>2. WritePage = page /\ head[page] = "RECEIVE_DATA"
      BY <2>1, <3>1, WritesTo, TypeParts DEF PagesInv, Storing
    <3>3. \A p \in Pages : head'[p] = "VALID_PAGE" =>
            \A a \in Vars : InPage(slot'[p], a) \in may'[a]
      BY <1>1, <1>2, <2>1, <3>1, <3>2
    <3>4. QED
      BY <1>2, <1>3, <2>2, <3>1, <3>3, KeptParts
  <2>5. QED
    BY <2>3, <2>4
<1>9. QED
  BY <1>4, <1>5, <1>6, <1>7, <1>8

LEMMA StepKept ==
  TypeOK /\ LoopInv /\ ShapeInv /\ CopyInv /\ HeaderInv /\ FreshInv /\ KeptInv
    /\ [Next]_vars => KeptInv'
<1> SUFFICES ASSUME TypeOK, CallInv, PagesInv, TornInv, CopyInv, HeaderInv, FreshInv,
                    KeptInv, [Next]_vars, fails' = 0, kept'
             PROVE  KeptInv'
  BY DEF ShapeInv, KeptInv
<1>0. /\ page \in Pages /\ Other(page) \in Pages /\ Other(page) # page
      /\ 0 \in Pages /\ 1 \in Pages /\ head \in [Pages -> Heads]
      /\ \A p \in Pages : p = page \/ p = Other(page)
      /\ \A p \in Pages : p = 0 \/ p = 1
  BY OtherPage DEF TypeOK, Pages, Other
<1>1. fails = 0
  BY NoErrorYet
<1>2. ValuesInv /\ BlankInv /\ OwnInv /\ FullInv
  BY <1>1 DEF FreshInv
<1>3. CASE PowerLoss
  <2>1. kept
    BY <1>3 DEF PowerLoss
  <2>2. QED
    BY <1>1, <1>3, <2>1, LossKept
<1>4. ASSUME Sober
      PROVE  kept
  BY <1>4 DEF Sober
<1>5. CASE CopiesDone \/ EraseOld \/ MarkValid \/ MarkReceive \/ ProgramAddress
  <2>1. Sober
    BY <1>5 DEF CopiesDone, EraseOld, MarkValid, MarkReceive, ProgramAddress
  <2>2. QED
    BY <1>1, <1>2, <1>4, <1>5, <2>1, FinishKept
<1> DEFINE Holds(p) == \A a \in Vars : InPage(slot[p], a) \in may[a]
           BlankMay == \A a \in Vars : Blank \in may[a]
<1>6. ASSUME kept
      PROVE  /\ job # "recover"
             /\ Booting => \E p \in Pages : head[p] = "ERASED"
             /\ Booting => \A p \in Pages : head[p] # "ERASED" => Holds(p)
             /\ ~ Booting => \A p \in Pages : head[p] = "VALID_PAGE" => Holds(p)
             /\ (\A p \in Pages : head[p] = "ERASED") => BlankMay
             /\ pc \in {"fmtErase0", "fmtValid", "fmtErase1"} =>
                  BlankMay /\ head[1] = "ERASED"
  BY <1>1, <1>6 DEF KeptInv, Whole, NothingYet
<1>7. ASSUME Sober, flash' = flash, \A a \in Vars : may[a] \subseteq may'[a],
             ~ Booting, ~ Booting', pc' \notin {"erase", "valid"}, job' # "recover"
      PROVE  KeptInv'
  <2>1. pc' \notin {"fmtErase0", "fmtValid", "fmtErase1"} /\ head' = head /\ slot' = slot
    BY <1>7 DEF Booting, flash
  <2>2. QED
    BY <1>4, <1>6, <1>7, <2>1, KeptParts
<1>8. CASE StoreNoPage
  <2>1. WritePage # NoPage
    BY <1>1, <1>8, ValidPage DEF StoreNoPage, HeaderInv
  <2>2. QED
    BY <1>8, <2>1 DEF StoreNoPage
<1>9. CASE StorePageFull \/ MarkRefused \/ NextVariable
  <2>1. Sober /\ flash' = flash /\ may' = may /\ ~ Booting /\ ~ Booting'
        /\ pc' \notin {"erase", "valid"}
    BY <1>9 DEF StorePageFull, MarkRefused, NextVariable, Return, flash, Booting
  <2>2. job' # "recover"
    BY <1>4, <1>6, <1>9, <2>1 DEF StorePageFull, MarkRefused, NextVariable, Return
  <2>3. QED
    BY <1>7, <2>1, <2>2
<1>10. ASSUME NEW a \in Vars, NEW v \in Values, Write(a, v)
       PROVE  KeptInv'
  <2>1. /\ Sober /\ flash' = flash /\ ~ Booting /\ ~ Booting'
        /\ pc' \notin {"erase", "valid"} /\ job' # "recover"
    BY <1>10 DEF Write, Booting
  <2>2. \A b \in Vars : may[b] \subseteq may'[b]
    BY <1>10 DEF Write, TypeOK
  <2>3. QED
    BY <1>7, <2>1, <2>2
<1>11. CASE ProgramData
  <2>1. /\ Sober /\ head' = head /\ may' = may /\ ~ Booting /\ ~ Booting' /\ job' = job
        /\ pc' \notin {"erase", "valid", "fmtErase0", "fmtValid", "fmtErase1"}
    BY <1>11 DEF ProgramData, Booting
  <2>2. \A p \in Pages, a \in Vars : InPage(slot'[p], a) = InPage(slot[p], a)
    BY <1>11, DataEffect
  <2>3. QED
    BY <1>4, <1>6, <2>1, <2>2, KeptParts
<1>12. ASSUME NEW p \in Pages, BootOneErased(p)
       PROVE  KeptInv'
  <2>1. /\ Sober /\ head' = head /\ slot' = slot /\ may' = may /\ Booting /\ Booting'
        /\ pc' = "tidyErase" /\ job' = job
    BY <1>12 DEF BootOneErased, Booting, flash
  <2>2. QED
    BY <1>4, <1>6, <2>1, KeptParts
<1>13. ASSUME NEW p \in Pages, BootRecover(p)
       PROVE  KeptInv'
  <2>1. Sober /\ Booting /\ \A q \in Pages : head[q] # "ERASED"
    BY <1>13 DEF BootRecover, Booting, Pages, Other
  <2>2. QED
    BY <1>4, <1>6, <2>1
<1>14. CASE BootFormat
  <2>1. /\ Sober /\ head' = head /\ slot' = slot /\ may' = may /\ Booting /\ Booting'
        /\ pc' = "fmtErase0" /\ job' = job /\ head[0] = head[1]
    BY <1>14 DEF BootFormat, Booting, GoTo, flash
  <2>2. \A p \in Pages : head[p] = "ERASED"
    BY <1>0, <1>4, <1>6, <2>1
  <2>3. QED
    BY <1>0, <1>4, <1>6, <2>1, <2>2, KeptParts
<1>15. CASE TidyErase \/ TidyValid
  <2>1. /\ Sober /\ Booting /\ job = "init" /\ job' # "recover"
        /\ pc' \in {"idle", "tidyValid"}
    BY <1>15 DEF TidyErase, TidyValid, GoTo, ReturnComplete, Return, Booting, CallInv
  <2>2. may' = may
    BY <1>15, <2>1, MaySame DEF TidyErase, TidyValid, GoTo
  <2>3. /\ head'[page] = "ERASED" /\ slot'[Other(page)] = slot[Other(page)]
        /\ head[Other(page)] # "ERASED" /\ head'[Other(page)] # "ERASED"
    BY <1>0, <1>15, EraseEffect, MarkEffect DEF TidyErase, TidyValid, PagesInv
  <2>4. \A a \in Vars : InPage(slot'[Other(page)], a) \in may'[a]
    BY <1>0, <1>4, <1>6, <2>1, <2>2, <2>3
  <2>5. \A p \in Pages : head'[p] # "ERASED" => p = Other(page)
    BY <1>0, <2>3
  <2>6. \A p \in Pages : head'[p] # "ERASED" =>
          \A a \in Vars : InPage(slot'[p], a) \in may'[a]
    BY <2>4, <2>5
  <2>7. \E p \in Pages : head'[p] = "ERASED"
    BY <1>0, <2>3
  <2>8. ~ (\A p \in Pages : head'[p] = "ERASED")
    BY <1>0, <2>3
  <2>9. \A p \in Pages : head'[p] = "VALID_PAGE" => head'[p] # "ERASED"
    OBVIOUS
  <2>10. QED
    BY <2>1, <2>6, <2>7, <2>8, <2>9, KeptParts
<1>16. CASE FormatErase0
  <2>1. /\ Sober /\ pc' = "fmtValid" /\ Booting /\ Booting' /\ may' = may /\ job' = job
        /\ pc = "fmtErase0"
    BY <1>16 DEF FormatErase0, GoTo, Booting
  <2>2. head'[0] = "ERASED" /\ head'[1] = head[1]
    BY <1>0, <1>16, EraseEffect DEF FormatErase0
  <2>3. head[1] = "ERASED" /\ BlankMay
    BY <1>4, <1>6, <2>1
  <2>4. \A p \in Pages : head'[p] = "ERASED"
    BY <1>0, <2>2, <2>3
  <2>5. QED
    BY <1>0, <1>4, <1>6, <2>1, <2>3, <2>4, KeptParts
<1>17. CASE FormatValid0
  <2>1. /\ Sober /\ pc' = "fmtErase1" /\ Booting /\ Booting' /\ may' = may /\ job' = job
        /\ pc = "fmtValid"
    BY <1>17 DEF FormatValid0, GoTo, Booting
  <2>2. head'[0] = "VALID_PAGE" /\ head'[1] = head[1] /\ slot' = slot /\ slot[0] = BlankPage
    BY <1>0, <1>2, <1>17, <2>1, MarkEffect DEF FormatValid0, BlankInv
  <2>3. head[1] = "ERASED" /\ BlankMay
    BY <1>4, <1>6, <2>1
  <2>4. \A p \in Pages : head'[p] # "ERASED" =>
          \A a \in Vars : InPage(slot'[p], a) \in may'[a]
    BY <1>0, <2>1, <2>2, <2>3, BlankHolds
  <2>5. QED
    BY <1>0, <1>4, <1>6, <2>1, <2>2, <2>3, <2>4, KeptParts
<1>18. CASE FormatErase1
  <2>1. /\ Sober /\ pc' = "idle" /\ Booting /\ ~ Booting' /\ job' = "none"
        /\ head[0] = "VALID_PAGE"
    BY <1>1, <1>18 DEF FormatErase1, ReturnComplete, Return, Booting, HeaderInv
  <2>2. may' = may
    BY <1>18, <2>1, MaySame DEF FormatErase1, CallInv
  <2>3. head'[0] = "VALID_PAGE" /\ head'[1] = "ERASED" /\ slot'[0] = slot[0]
    BY <1>0, <1>18, <2>1, EraseEffect DEF FormatErase1
  <2>4. Holds(0)
    BY <1>0, <1>4, <1>6, <2>1
  <2>5. \A p \in Pages : head'[p] = "VALID_PAGE" =>
          \A a \in Vars : InPage(slot'[p], a) \in may'[a]
    BY <1>0, <2>2, <2>3, <2>4
  <2>6. ~ (\A p \in Pages : head'[p] = "ERASED")
    BY <1>0, <2>3
  <2>7. QED
    BY <2>1, <2>5, <2>6, KeptParts
<1>19. CASE FlashError
  BY <1>1, <1>19 DEF FlashError
<1>20. CASE UNCHANGED vars
  BY <1>20 DEF vars, flash, ram, KeptInv, Whole, NothingYet, Booting
<1>21. QED
  BY <1>3, <1>5, <1>8, <1>9, <1>10, <1>11, <1>12, <1>13, <1>14, <1>15, <1>16, <1>17,
     <1>18, <1>19, <1>20 DEF Next, Firmware, Sketch

LEMMA InitKept == Init => KeptInv
<1> SUFFICES ASSUME Init PROVE KeptInv
  OBVIOUS
<1>1. /\ 0 \in Pages /\ \A p \in Pages : head[p] = "ERASED"
      /\ pc = "boot" /\ job = "init"
      /\ \A a \in Vars : Blank \in may[a]
  BY DEF Init, Pages
<1>2. QED
  BY <1>1 DEF KeptInv, Booting, NothingYet, Whole

\* Every completed write survives any number of power losses, torn slots and erases cut
\* short, as long as no loss hits two pages in use and no flash operation fails.
THEOREM WritesSurvive == Spec => []DurableUnlessTransferHit
<1>1. TypeOK /\ HeaderInv /\ KeptInv => DurableUnlessTransferHit
  <2> SUFFICES ASSUME TypeOK, HeaderInv, KeptInv, pc = "idle", fails = 0, kept,
                      NEW a \in Vars
               PROVE  Read(a) \in may[a]
    BY DEF DurableUnlessTransferHit
  <2>1. ReadPage \in Pages /\ head[ReadPage] = "VALID_PAGE"
    BY ValidPage DEF HeaderInv
  <2>2. ~ Booting
    BY DEF Booting
  <2>3. QED
    BY <2>1, <2>2, ReadIs DEF KeptInv, Whole
<1>2. QED
  BY <1>1, InitKept, StepKept, FreshAlways, PTL DEF Spec

-----------------------------------------------------------------------------
(* Without faults, the pages implement a map *)

\* Where the pages stand when neither power nor a flash operation fails: EEPROM_Init
\* formats, one page is in use at rest, and a transfer finds the other one erased.
CalmInv ==
  /\ pc \notin {"tidyErase", "tidyValid"} /\ job # "recover"
  /\ pc \in {"boot", "fmtErase0", "fmtValid"} =>
       \A p \in Pages : head[p] = "ERASED" /\ slot[p] = BlankPage
  /\ pc = "fmtErase1" => head[0] = "VALID_PAGE" /\ head[1] = "ERASED"
  /\ pc = "idle" \/ job = "write" => GoodState
  /\ pc = "mark" => head[page] = "ERASED"

\* A transfer has used one slot for each variable the loop has passed, and one for the
\* variable that is written; and it has put nothing in the new page that the old one
\* does not hold.
Used == idx + (IF arg.var < idx THEN 0 ELSE 1)

RoomInv ==
  job = "transfer" =>
    /\ pc \in {"data", "next"} =>
         \A i \in 1 .. Slots : i > Used => slot[page][i] = Empty
    /\ pc = "addr" => at <= Used + 1
    /\ Storing \/ pc \in {"next", "erase"} =>
         \A a \in Vars : a # arg.var /\ InPage(slot[Other(page)], a) = Blank =>
           InPage(slot[page], a) = Blank

NoFaults == ~ FlashError /\ ~ PowerLoss

LEMMA GoodPages ==
  ASSUME NEW p \in Pages, head[p] = "VALID_PAGE", head[Other(p)] = "ERASED"
  PROVE  ReadPage = p /\ WritePage = p /\ ActivePage = p
  BY DEF Pages, Other, ReadPage, WritePage, ActivePage, NoPage

LEMMA StepCalm ==
  Context /\ BlankInv /\ CalmInv /\ NoFaults /\ [Next]_vars /\ ~ (job = "transfer" /\ Stuck /\ pc = "data")
    => CalmInv'
<1> SUFFICES ASSUME TypeOK, LoopInv, CallInv, PagesInv, TornInv, CopyInv, HeaderInv,
                    fails = 0, BlankInv, CalmInv, NoFaults, [Next]_vars,
                    ~ (job = "transfer" /\ Stuck /\ pc = "data")
             PROVE  CalmInv'
  BY DEF Context, ShapeInv
<1>0. /\ page \in Pages /\ Other(page) \in Pages /\ Other(page) # page
      /\ 0 \in Pages /\ 1 \in Pages /\ Other(0) = 1 /\ Other(1) = 0
      /\ \A p \in Pages : p = 0 \/ p = 1
      /\ Other(Other(page)) = page
  BY OtherPage DEF TypeOK, Pages, Other
<1>1. ASSUME pc' \in {"next", "erase", "valid"}, job' \notin {"write", "recover"}
      PROVE  CalmInv'
  BY <1>1 DEF CalmInv
<1>2. ASSUME pc' \in {"data", "addr"}, job' = "transfer"
      PROVE  CalmInv'
  BY <1>2 DEF CalmInv
<1>3. ASSUME head' = head, GoodState, job' # "recover", pc' \in {"idle", "data", "addr"}
      PROVE  CalmInv'
  BY <1>3 DEF CalmInv, GoodState, Other
<1>4. ASSUME NEW p \in Pages, BootOneErased(p) \/ BootRecover(p)
      PROVE  FALSE
  BY <1>4, OtherPage DEF BootOneErased, BootRecover, CalmInv
<1>5. CASE BootFormat
  BY <1>5 DEF BootFormat, GoTo, flash, CalmInv, CallInv, Booting
<1>6. CASE TidyErase \/ TidyValid
  BY <1>6 DEF TidyErase, TidyValid, CalmInv
<1>7. CASE FormatErase0
  <2>1. /\ slot'[0] = BlankPage /\ head'[0] = "ERASED" /\ slot'[1] = slot[1]
        /\ head'[1] = head[1] /\ pc = "fmtErase0" /\ pc' = "fmtValid" /\ job' = job
    BY <1>0, <1>7, EraseEffect DEF FormatErase0, GoTo
  <2>2. QED
    BY <1>0, <2>1 DEF CalmInv, CallInv, Booting
<1>8. CASE FormatValid0
  <2>1. /\ head'[0] = "VALID_PAGE" /\ head'[1] = head[1] /\ pc = "fmtValid"
        /\ pc' = "fmtErase1" /\ job' = job
    BY <1>0, <1>8, MarkEffect DEF FormatValid0, GoTo
  <2>2. QED
    BY <1>0, <2>1 DEF CalmInv, CallInv, Booting
<1>9. CASE FormatErase1
  <2>1. /\ head'[0] = "VALID_PAGE" /\ head'[1] = "ERASED" /\ pc' = "idle" /\ job' = "none"
    BY <1>0, <1>9, EraseEffect DEF FormatErase1, ReturnComplete, Return, CalmInv
  <2>2. GoodState'
    BY <1>0, <2>1 DEF GoodState, Other
  <2>3. QED
    BY <2>1, <2>2 DEF CalmInv
<1>10. ASSUME NEW a \in Vars, NEW v \in Values, Write(a, v)
       PROVE  CalmInv'
  BY <1>3, <1>10 DEF Write, flash, CalmInv
<1>11. CASE ProgramData
  <2>1. head' = head /\ job' = job /\ pc' = "addr" /\ pc = "data"
    BY <1>11 DEF ProgramData
  <2>2. job \in {"write", "transfer"}
    BY <2>1 DEF CallInv, Storing, CalmInv
  <2>3. QED
    BY <1>2, <1>3, <2>1, <2>2 DEF CalmInv
<1>12. CASE ProgramAddress
  <2>1. CASE job = "write"
    BY <1>3, <1>12, <2>1 DEF ProgramAddress, ReturnComplete, Return, CalmInv
  <2>2. CASE job # "write"
    BY <1>1, <1>12, <2>2 DEF ProgramAddress, CalmInv
  <2>3. QED
    BY <2>1, <2>2
<1>13. CASE StoreNoPage
  <2>1. WritePage # NoPage
    BY <1>13, ValidPage DEF StoreNoPage, HeaderInv
  <2>2. QED
    BY <1>13, <2>1 DEF StoreNoPage
<1>14. CASE StorePageFull
  <2>1. job = "write"
    BY <1>14 DEF StorePageFull, CallInv, Storing, CalmInv, Stuck
  <2>2. PICK p \in Pages : head[p] = "VALID_PAGE" /\ head[Other(p)] = "ERASED"
    BY <2>1 DEF CalmInv, GoodState
  <2>3. ReadPage = p
    BY <2>2, GoodPages
  <2>4. pc' = "mark" /\ job' = "transfer" /\ page' = Other(p) /\ head' = head
    BY <1>14, <2>1, <2>3 DEF StorePageFull, flash
  <2>5. QED
    BY <2>2, <2>4 DEF CalmInv
<1>15. CASE MarkReceive
  BY <1>2, <1>15 DEF MarkReceive, CallInv
<1>16. CASE MarkRefused
  BY <1>16 DEF MarkRefused, CalmInv
<1>17. CASE NextVariable
  <2>1. job' = "transfer" /\ pc' \in {"next", "data"}
    BY <1>17 DEF NextVariable, CallInv, CalmInv
  <2>2. QED
    BY <1>1, <1>2, <2>1
<1>18. CASE CopiesDone
  BY <1>1, <1>18 DEF CopiesDone, GoTo, CallInv, CalmInv
<1>19. CASE EraseOld
  BY <1>1, <1>19 DEF EraseOld, GoTo, CallInv, CalmInv
<1>20. CASE MarkValid
  <2>1. job = "transfer" /\ head[Other(page)] = "ERASED" /\ pc' = "idle" /\ job' = "none"
    BY <1>20 DEF MarkValid, CallInv, CalmInv, PagesInv, ReturnComplete, Return
  <2>2. head'[page] = "VALID_PAGE" /\ head'[Other(page)] = "ERASED"
    BY <1>0, <1>20, <2>1, MarkEffect DEF MarkValid
  <2>3. GoodState'
    BY <1>0, <2>2 DEF GoodState, Other
  <2>4. QED
    BY <2>1, <2>3 DEF CalmInv
<1>21. CASE UNCHANGED vars
  BY <1>21 DEF vars, flash, ram, CalmInv, GoodState, Other
<1>22. QED
  BY <1>4, <1>5, <1>6, <1>7, <1>8, <1>9, <1>10, <1>11, <1>12, <1>13, <1>14, <1>15,
     <1>16, <1>17, <1>18, <1>19, <1>20, <1>21 DEF Next, Firmware, Sketch, NoFaults

\* There is a free slot for every variable that is copied.
LEMMA RoomLeft ==
  ASSUME TypeOK, LoopInv, CopyInv, PagesInv, RoomInv, job = "transfer", Storing
  PROVE  /\ idx \in -1 .. Size - 1 /\ Used \in Nat /\ Used < Slots
         /\ pc = "data" => slot[page][Used + 1] = Empty /\ ~ Stuck
<1>1. idx \in -1 .. Size - 1 /\ arg.var \in 0 .. Size - 1 /\ Slots \in Nat /\ Slots >= Size
  BY DEF TypeOK, LoopInv, Storing, Entry, Vars
<1>2. idx >= 0 => idx # arg.var
  BY DEF CopyInv
<1>3. Used \in Nat /\ Used < Slots
  <2>1. CASE arg.var < idx
    BY <1>1, <2>1 DEF Used
  <2>2. CASE ~ (arg.var < idx)
    BY <1>1, <1>2, <2>2 DEF Used
  <2>3. QED
    BY <2>1, <2>2
<1>4. Used + 1 \in 1 .. Slots /\ Used + 1 > Used
  BY <1>1, <1>3
<1>5. ASSUME pc = "data"
      PROVE  slot[page][Used + 1] = Empty /\ ~ Stuck
  <2>1. slot[page][Used + 1] = Empty
    BY <1>4, <1>5 DEF RoomInv
  <2>2. WritePage = page
    BY WritesTo, TypeParts
  <2>3. QED
    BY <1>4, <2>1, <2>2 DEF Stuck, Free
<1>6. QED
  BY <1>1, <1>3, <1>5

LEMMA StepRoom ==
  Context /\ BlankInv /\ CalmInv /\ RoomInv /\ NoFaults /\ [Next]_vars => RoomInv'
<1> SUFFICES ASSUME TypeOK, LoopInv, CallInv, PagesInv, TornInv, CopyInv, HeaderInv,
                    fails = 0, BlankInv, CalmInv, RoomInv, NoFaults, [Next]_vars,
                    job' = "transfer"
             PROVE  RoomInv'
  BY DEF Context, ShapeInv, RoomInv
<1>0. /\ page \in Pages /\ Other(page) \in Pages /\ Other(page) # page
      /\ idx \in -1 .. Size /\ arg.var \in Vars /\ cur.var \in Vars
      /\ arg.var \in 0 .. Size - 1
  BY OtherPage DEF TypeOK, Entry, Vars
<1>1. ASSUME NEW p \in Pages, BootOneErased(p) \/ BootRecover(p)
      PROVE  RoomInv'
  BY <1>1 DEF BootOneErased, BootRecover, CallInv, Booting
<1>2. CASE BootFormat \/ TidyErase \/ TidyValid \/ FormatErase0 \/ FormatValid0
           \/ FormatErase1
  BY <1>2 DEF BootFormat, TidyErase, TidyValid, FormatErase0, FormatValid0,
     FormatErase1, GoTo, ReturnComplete, Return, CallInv, Booting
<1>3. CASE StoreNoPage \/ MarkRefused \/ MarkValid
  BY <1>3 DEF StoreNoPage, MarkRefused, MarkValid, GoTo, ReturnComplete, Return,
     RoomInv, Storing
<1>4. ASSUME NEW a \in Vars, NEW v \in Values, Write(a, v)
      PROVE  RoomInv'
  BY <1>4 DEF Write
<1>5. CASE StorePageFull
  BY <1>5 DEF StorePageFull, Return, RoomInv, Storing
<1>6. CASE MarkReceive
  <2>1. /\ slot' = slot /\ pc' = "data" /\ idx' = -1 /\ page' = page /\ arg' = arg
        /\ pc = "mark" /\ head[page] = "ERASED"
    BY <1>6 DEF MarkReceive, Mark
  <2>2. slot[page] = BlankPage
    BY <1>0, <2>1 DEF BlankInv
  <2>3. \A i \in 1 .. Slots : slot'[page'][i] = Empty
    BY <2>1, <2>2 DEF BlankPage
  <2>4. \A a \in Vars : InPage(slot'[page'], a) = Blank
    BY <2>1, <2>2, BlankHolds
  <2>5. QED
    BY <2>1, <2>3, <2>4 DEF RoomInv
<1>7. CASE ProgramData
  <2>1. /\ pc = "data" /\ pc' = "addr" /\ job = "transfer"
        /\ UNCHANGED <<head, job, arg, cur, page, idx>>
    BY <1>7 DEF ProgramData
  <2>2. \A p \in Pages, a \in Vars : InPage(slot'[p], a) = InPage(slot[p], a)
    BY <1>7, DataEffect
  <2>3. WritePage = page /\ Used \in Nat /\ Used < Slots /\ slot[page][Used + 1] = Empty
    BY <2>1, WritesTo, RoomLeft, TypeParts DEF Storing
  <2>4. Used + 1 \in Free(page)
    BY <2>3 DEF Free
  <2>5. at' = FirstFree(page) /\ at' <= Used + 1
    BY <1>0, <1>7, <2>3, <2>4, FirstFreeSlot DEF ProgramData
  <2>6. Used' = Used /\ Other(page)' = Other(page)
    BY <2>1 DEF Used, Other
  <2>7. \A a \in Vars : a # arg.var /\ InPage(slot'[Other(page)], a) = Blank =>
          InPage(slot'[page], a) = Blank
    BY <1>0, <2>1, <2>2 DEF RoomInv, Storing
  <2>8. QED
    BY <2>1, <2>5, <2>6, <2>7 DEF RoomInv
<1>8. CASE ProgramAddress
  <2>1. /\ pc = "addr" /\ pc' = "next" /\ job = "transfer" /\ idx' = idx + 1
        /\ UNCHANGED <<head, arg, page>>
    BY <1>8 DEF ProgramAddress, ReturnComplete, Return
  <2>2. WritePage = page
    BY <2>1, WritesTo, TypeParts DEF Storing
  <2>3. /\ slot'[Other(page)] = slot[Other(page)]
        /\ \A a \in Vars : InPage(slot'[page], a)
             = IF a = cur.var THEN cur.val ELSE InPage(slot[page], a)
    BY <1>0, <1>8, <2>2, AddressEffect
  <2>4. at \in 1 .. Slots /\ \A j \in 1 .. Slots : j > at => slot[page][j] = Empty
    BY <2>1, <2>2 DEF TornInv
  <2>5. slot'[page] = [slot[page] EXCEPT ![at].addr = cur.var]
    BY <1>0, <1>8, <2>2 DEF ProgramAddress, TypeOK
  <2>6. \A j \in 1 .. Slots : j > at => slot'[page][j] = Empty
    BY <1>0, <2>4, <2>5 DEF TypeOK
  <2>7. at <= Used + 1 /\ idx \in -1 .. Size - 1 /\ Used \in Nat
    BY <2>1, RoomLeft DEF RoomInv, Storing
  <2>8. idx >= 0 => idx # arg.var /\ cur = [var |-> idx, val |-> InPage(slot[Other(page)], idx)]
    BY <2>1 DEF CopyInv, Storing
  <2>9. idx = -1 => cur = arg
    BY <2>1 DEF CopyInv, Storing
  <2>10. Used + 1 <= Used'
    <3>1. CASE arg.var < idx
      BY <1>0, <2>1, <2>7, <3>1 DEF Used
    <3>2. CASE ~ (arg.var < idx)
      <4>1. ~ (arg.var < idx + 1) \/ idx = -1
        BY <1>0, <2>7, <2>8, <3>2
      <4>2. ~ (arg.var < idx + 1)
        BY <1>0, <4>1
      <4>3. QED
        BY <1>0, <2>1, <2>7, <3>2, <4>2 DEF Used
    <3>3. QED
      BY <3>1, <3>2
  <2>11. \A i \in 1 .. Slots : i > Used' => slot'[page][i] = Empty
    <3>1. Used' \in Int
      BY <1>0, <2>1, <2>7 DEF Used
    <3>2. QED
      BY <2>4, <2>6, <2>7, <2>10, <3>1
  <2>12. ASSUME NEW a \in Vars, a # arg.var, InPage(slot[Other(page)], a) = Blank
         PROVE  InPage(slot'[page], a) = Blank
    <3>1. InPage(slot[page], a) = Blank
      BY <2>1, <2>12 DEF RoomInv, Storing
    <3>2. cur.val # Blank
      BY <2>1 DEF CallInv, Storing
    <3>3. a # cur.var
      BY <1>0, <2>7, <2>8, <2>9, <2>12, <3>2
    <3>4. QED
      BY <2>3, <3>1, <3>3
  <2>13. Other(page)' = Other(page)
    BY <2>1 DEF Other
  <2>14. QED
    BY <2>1, <2>3, <2>11, <2>12, <2>13 DEF RoomInv
<1>9. CASE NextVariable
  <2>1. /\ pc = "next" /\ job = "transfer" /\ slot' = slot
        /\ UNCHANGED <<arg, page>> /\ pc' \in {"next", "data"} /\ idx' \in {idx, idx + 1}
    BY <1>9 DEF NextVariable, flash
  <2>2. Used' >= Used /\ Used' \in Int /\ Used \in Int
    <3>1. arg' = arg /\ (idx' = idx \/ idx' = idx + 1)
      BY <2>1
    <3>2. CASE idx' = idx
      BY <1>0, <3>1, <3>2 DEF Used
    <3>3. CASE idx' = idx + 1
      BY <1>0, <3>1, <3>3 DEF Used
    <3>4. QED
      BY <3>1, <3>2, <3>3
  <2>3. \A i \in 1 .. Slots : i > Used' => slot[page][i] = Empty
    BY <2>1, <2>2 DEF RoomInv
  <2>4. Other(page)' = Other(page)
    BY <2>1 DEF Other
  <2>5. QED
    BY <2>1, <2>3, <2>4 DEF RoomInv
<1>10. CASE CopiesDone
  BY <1>10 DEF CopiesDone, GoTo, flash, RoomInv, Other, Storing
<1>11. CASE EraseOld
  BY <1>11 DEF EraseOld, GoTo, ReturnComplete, Return, RoomInv, Storing
<1>12. CASE UNCHANGED vars
  BY <1>12 DEF vars, ram, flash, RoomInv, Other, Storing, Used
<1>13. QED
  BY <1>1, <1>2, <1>3, <1>4, <1>5, <1>6, <1>7, <1>8, <1>9, <1>10, <1>11, <1>12
  DEF Next, Firmware, Sketch, NoFaults

PageMap(s) == [a \in Vars |-> InPage(s, a)]

LEMMA ActivePageType == ActivePage \in Pages
  BY ReadPageType DEF ActivePage, Pages

LEMMA ContentsAre == Contents = PageMap(slot[ActivePage])
  BY ActivePageType, LookupIs DEF Contents, PageMap

LEMMA ContentsNext == Contents' = PageMap(slot'[ActivePage'])
<1>1. (Contents = PageMap(slot[ActivePage]))'
  BY ContentsAre, PTL
<1>2. QED
  BY <1>1

\* Steps that leave the map as it is, the call too.
LEMMA NothingSeen ==
  ASSUME NEW p, ActivePage = p, ActivePage' = p,
         \A a \in Vars : InPage(slot'[p], a) = InPage(slot[p], a)
  PROVE  Contents' = Contents
<1>1. Contents' = PageMap(slot'[p])
  <2>1. Contents' = PageMap(slot'[ActivePage'])
    BY ContentsNext
  <2>2. QED
    BY <2>1
<1>2. PageMap(slot'[p]) = PageMap(slot[p])
  BY DEF PageMap
<1>3. QED
  BY <1>1, <1>2, ContentsAre

LEMMA SameActive == head' = head => ActivePage' = ActivePage
  BY DEF ActivePage, ReadPage

LEMMA StepRefines ==
  Context /\ BlankInv /\ FullInv /\ CalmInv /\ RoomInv /\ NoFaults /\ [Next]_vars
    => [Store!Next]_<<Contents, Calling>>
<1> SUFFICES ASSUME TypeOK, LoopInv, CallInv, PagesInv, TornInv, CopyInv, HeaderInv,
                    fails = 0, BlankInv, FullInv, CalmInv, RoomInv, NoFaults, [Next]_vars
             PROVE  [Store!Next]_<<Contents, Calling>>
  BY DEF Context, ShapeInv
<1>0. /\ page \in Pages /\ Other(page) \in Pages /\ Other(page) # page
      /\ 0 \in Pages /\ 1 \in Pages /\ Other(Other(page)) = page /\ arg.var \in Vars
  BY OtherPage DEF TypeOK, Pages, Other, Entry
<1> DEFINE Stutters == Contents' = Contents /\ Calling' = Calling
           m == PageMap(slot[ActivePage])
<1>1. Contents = m /\ ActivePage \in Pages
  BY ContentsAre, ActivePageType
<1>2. Contents' = PageMap(slot'[ActivePage'])
  BY ContentsNext
<1> HIDE DEF m
<1>3. ASSUME flash' = flash
      PROVE  Contents' = Contents
  BY <1>1, <1>3, SameActive, NothingSeen DEF flash
<1>4. ASSUME job \in {"write", "transfer"}
      PROVE  Calling = <<arg.var, arg.val>> /\ Calling # <<>>
  BY <1>4 DEF Calling
<1>5. ASSUME job \notin {"write", "transfer"}
      PROVE  Calling = <<>>
  BY <1>5 DEF Calling
<1>6. ASSUME job' \notin {"write", "transfer"}
      PROVE  Calling' = <<>>
  BY <1>6 DEF Calling
<1>7. ASSUME job' = job, arg' = arg
      PROVE  Calling' = Calling
  BY <1>7 DEF Calling
<1>8. ASSUME job \notin {"write", "transfer"}, job' \notin {"write", "transfer"}
      PROVE  Calling' = Calling
  BY <1>5, <1>6, <1>8
<1>9. ASSUME NEW p \in Pages, BootOneErased(p) \/ BootRecover(p)
      PROVE  FALSE
  BY <1>9, OtherPage DEF BootOneErased, BootRecover, CalmInv
<1>10. CASE BootFormat \/ NextVariable \/ CopiesDone
  BY <1>3, <1>7, <1>10 DEF BootFormat, NextVariable, CopiesDone, GoTo
<1>11. CASE TidyErase \/ TidyValid
  BY <1>11 DEF TidyErase, TidyValid, CalmInv
<1>12. CASE FormatErase0
  <2>1. /\ pc = "fmtErase0" /\ job' = job /\ arg' = arg
    BY <1>12 DEF FormatErase0, GoTo
  <2>2. slot'[0] = BlankPage /\ head'[0] = "ERASED" /\ slot'[1] = slot[1] /\ head'[1] = head[1]
    BY <1>0, <1>12, EraseEffect DEF FormatErase0
  <2>3. head[0] = "ERASED" /\ head[1] = "ERASED" /\ slot[0] = BlankPage
    BY <1>0, <2>1 DEF CalmInv
  <2>4. ActivePage = 0 /\ ActivePage' = 0
    BY <2>2, <2>3 DEF ActivePage, ReadPage, NoPage
  <2>5. Contents' = Contents
    BY <2>2, <2>3, <2>4, NothingSeen
  <2>6. QED
    BY <1>7, <2>1, <2>5
<1>13. CASE FormatValid0
  <2>1. /\ pc = "fmtValid" /\ job' = job /\ arg' = arg /\ slot' = slot
    BY <1>13 DEF FormatValid0, GoTo, Mark
  <2>2. head'[0] = "VALID_PAGE"
    BY <1>0, <1>13, MarkEffect DEF FormatValid0
  <2>3. head[0] = "ERASED" /\ head[1] = "ERASED"
    BY <1>0, <2>1 DEF CalmInv
  <2>4. ActivePage = 0 /\ ActivePage' = 0
    BY <2>2, <2>3 DEF ActivePage, ReadPage, NoPage
  <2>5. Contents' = Contents
    BY <2>1, <2>4, NothingSeen
  <2>6. QED
    BY <1>7, <2>1, <2>5
<1>14. CASE FormatErase1
  <2>1. pc = "fmtErase1" /\ job = "init" /\ job' = "none"
    BY <1>14 DEF FormatErase1, ReturnComplete, Return, CallInv, Booting
  <2>2. slot'[0] = slot[0] /\ head'[0] = head[0] /\ head[0] = "VALID_PAGE"
    BY <1>0, <1>14, <2>1, EraseEffect DEF FormatErase1, CalmInv
  <2>3. ActivePage = 0 /\ ActivePage' = 0
    BY <2>2 DEF ActivePage, ReadPage, NoPage
  <2>4. Contents' = Contents
    BY <2>2, <2>3, NothingSeen
  <2>5. QED
    BY <1>8, <2>1, <2>4
<1>15. ASSUME NEW a \in Vars, NEW v \in Values, Write(a, v)
       PROVE  Store!Next
  <2>1. /\ pc = "idle" /\ job' = "write" /\ arg' = [var |-> a, val |-> v]
        /\ flash' = flash
    BY <1>15 DEF Write
  <2>2. job \notin {"write", "transfer"}
    BY <2>1 DEF CallInv, Storing
  <2>3. Calling = <<>> /\ Calling' = <<a, v>>
    BY <1>5, <2>1, <2>2 DEF Calling
  <2>4. Store!Call(a, v)
    BY <1>3, <2>1, <2>3 DEF Store!Call
  <2>5. QED
    BY <2>4 DEF Store!Next
<1>16. CASE ProgramData
  <2>1. head' = head /\ job' = job /\ arg' = arg
    BY <1>16 DEF ProgramData
  <2>2. \A p \in Pages, a \in Vars : InPage(slot'[p], a) = InPage(slot[p], a)
    BY <1>16, DataEffect
  <2>3. Contents' = Contents
    BY <1>1, <2>1, <2>2, SameActive, NothingSeen
  <2>4. QED
    BY <1>7, <2>1, <2>3
<1>17. CASE ProgramAddress /\ job = "write"
  <2>1. /\ pc = "addr" /\ head' = head /\ job' = "none" /\ cur = arg
    BY <1>17 DEF ProgramAddress, ReturnComplete, Return, CallInv
  <2>2. PICK p \in Pages : head[p] = "VALID_PAGE" /\ head[Other(p)] = "ERASED"
    BY <1>17 DEF CalmInv, GoodState
  <2>3. WritePage = p /\ ActivePage = p /\ ActivePage' = p
    BY <2>1, <2>2, GoodPages, SameActive
  <2>4. \A a \in Vars : InPage(slot'[p], a)
                          = IF a = arg.var THEN arg.val ELSE InPage(slot[p], a)
    BY <1>17, <2>1, <2>3, AddressEffect
  <2>5. Contents' = [PageMap(slot[p]) EXCEPT ![arg.var] = arg.val]
    BY <1>2, <2>3, <2>4 DEF PageMap
  <2>6. Contents' = [Contents EXCEPT ![Calling[1]] = Calling[2]]
    BY <1>4, <1>17, <2>3, <2>5, ContentsAre
  <2>7. Calling' = <<>> /\ Calling # <<>>
    BY <1>4, <1>6, <1>17, <2>1
  <2>8. Store!Return
    BY <2>6, <2>7 DEF Store!Return, Store!Stored
  <2>9. QED
    BY <2>8 DEF Store!Next
<1>18. CASE ProgramAddress /\ job # "write"
  <2>1. pc = "addr" /\ job = "transfer" /\ job' = job /\ arg' = arg /\ head' = head
    BY <1>18 DEF ProgramAddress, CallInv, CalmInv, Storing
  <2>2. WritePage = page /\ ReadPage = Other(page)
    BY <2>1, WritesTo, TypeParts DEF Storing
  <2>3. ActivePage = Other(page) /\ ActivePage' = Other(page)
    BY <1>0, <2>1, <2>2, SameActive DEF ActivePage, NoPage, Pages
  <2>4. slot'[Other(page)] = slot[Other(page)]
    BY <1>0, <1>18, <2>2, AddressEffect
  <2>5. Contents' = Contents
    BY <2>3, <2>4, NothingSeen
  <2>6. QED
    BY <1>7, <2>1, <2>5
<1>19. CASE StoreNoPage
  <2>1. WritePage # NoPage
    BY <1>19, ValidPage DEF StoreNoPage, HeaderInv
  <2>2. QED
    BY <1>19, <2>1 DEF StoreNoPage
<1>20. CASE StorePageFull
  <2>1. pc = "data" /\ Stuck
    BY <1>20 DEF StorePageFull, Stuck
  <2>2. job = "write"
    BY <2>1, RoomLeft DEF CallInv, CalmInv, Storing
  <2>3. job' = "transfer" /\ arg' = arg /\ flash' = flash
    BY <1>20, <2>2 DEF StorePageFull
  <2>4. Calling' = <<arg.var, arg.val>>
    BY <2>3 DEF Calling
  <2>5. QED
    BY <1>3, <1>4, <2>2, <2>3, <2>4
<1>21. CASE MarkReceive
  <2>1. /\ pc = "mark" /\ job' = job /\ arg' = arg /\ slot' = slot
        /\ head[page] = "ERASED" /\ head[Other(page)] = "VALID_PAGE"
    BY <1>21 DEF MarkReceive, Mark, PagesInv
  <2>2. head'[page] = "RECEIVE_DATA" /\ head'[Other(page)] = "VALID_PAGE"
    BY <1>0, <1>21, <2>1, MarkEffect DEF MarkReceive
  <2>3. ActivePage = Other(page) /\ ActivePage' = Other(page)
    BY <1>0, <2>1, <2>2 DEF ActivePage, ReadPage, NoPage, Pages, Other
  <2>4. Contents' = Contents
    BY <2>1, <2>3, NothingSeen
  <2>5. QED
    BY <1>7, <2>1, <2>4
<1>22. CASE MarkRefused
  BY <1>22 DEF MarkRefused, CalmInv
<1>23. CASE EraseOld
  <2>1. /\ pc = "erase" /\ job = "transfer" /\ job' = job /\ arg' = arg
        /\ head[page] = "RECEIVE_DATA" /\ head[Other(page)] = "VALID_PAGE"
    BY <1>23 DEF EraseOld, GoTo, CallInv, CalmInv, PagesInv
  <2>2. /\ head'[Other(page)] = "ERASED" /\ head'[page] = "RECEIVE_DATA"
        /\ slot'[page] = slot[page]
    BY <1>0, <1>23, <2>1, EraseEffect DEF EraseOld
  <2>3. ActivePage = Other(page) /\ ActivePage' = page
    BY <1>0, <2>1, <2>2 DEF ActivePage, ReadPage, NoPage, Pages, Other
  <2>4. ASSUME NEW a \in Vars
        PROVE  InPage(slot[page], a)
                 = IF a = arg.var THEN arg.val ELSE InPage(slot[Other(page)], a)
    <3>1. idx = Size /\ a < Size
      BY <2>1 DEF CopyInv, Vars
    <3>2. QED
      BY <2>1, <3>1 DEF CopyInv, RoomInv, Moved
  <2>5. Contents' = [PageMap(slot[Other(page)]) EXCEPT ![arg.var] = arg.val]
    BY <1>2, <2>2, <2>3, <2>4 DEF PageMap
  <2>6. Contents' = [Contents EXCEPT ![Calling[1]] = Calling[2]]
    BY <1>4, <2>1, <2>3, <2>5, ContentsAre
  <2>7. Store!TakeEffect
    BY <1>4, <1>7, <2>1, <2>6 DEF Store!TakeEffect, Store!Stored
  <2>8. QED
    BY <2>7 DEF Store!Next
<1>24. CASE MarkValid
  <2>1. /\ pc = "valid" /\ job = "transfer" /\ job' = "none" /\ slot' = slot
        /\ head[page] = "RECEIVE_DATA" /\ head[Other(page)] = "ERASED"
        /\ InPage(slot[page], arg.var) = arg.val
    BY <1>24 DEF MarkValid, ReturnComplete, Return, CallInv, CalmInv, PagesInv, CopyInv,
       Moved, Mark
  <2>2. head'[page] = "VALID_PAGE" /\ head'[Other(page)] = "ERASED"
    BY <1>0, <1>24, <2>1, MarkEffect DEF MarkValid
  <2>3. ActivePage = page /\ ActivePage' = page
    BY <1>0, <2>1, <2>2 DEF ActivePage, ReadPage, NoPage, Pages, Other
  <2>4. Contents' = Contents
    BY <2>1, <2>3, NothingSeen
  <2>5. Contents = [PageMap(slot[page]) EXCEPT ![arg.var] = arg.val]
    BY <1>0, <2>1, <2>3, ContentsAre DEF PageMap
  <2>6. Contents' = [Contents EXCEPT ![Calling[1]] = Calling[2]]
    <3>1. Contents = PageMap(slot[page])
      BY <2>3, ContentsAre
    <3>2. QED
      BY <1>4, <2>1, <2>4, <2>5, <3>1
  <2>7. Calling' = <<>> /\ Calling # <<>>
    BY <1>4, <1>6, <2>1
  <2>8. Store!Return
    BY <2>6, <2>7 DEF Store!Return, Store!Stored
  <2>9. QED
    BY <2>8 DEF Store!Next
<1>25. CASE UNCHANGED vars
  BY <1>3, <1>7, <1>25 DEF vars, ram
<1>26. QED
  BY <1>9, <1>10, <1>11, <1>12, <1>13, <1>14, <1>15, <1>16, <1>17, <1>18, <1>19,
     <1>20, <1>21, <1>22, <1>23, <1>24, <1>25 DEF Next, Firmware, Sketch, NoFaults

\* Without faults the two pages are a map whose writes take effect at one instant: no
\* transfer, whenever it comes, shows, and none runs out of room.
THEOREM PagesImplementStore ==
  ASSUME MaxLoss = 0, MaxFail = 0
  PROVE  Spec => ImplementsStore
<1> DEFINE Inv == TypeOK /\ LoopInv /\ ShapeInv /\ CopyInv /\ HeaderInv /\ FreshInv
           Calm == CalmInv /\ RoomInv
<1>1. Init => Calm
  BY DEF Init, CalmInv, RoomInv
<1>2. TypeOK /\ [Next]_vars => fails = 0 /\ NoFaults
  BY DEF TypeOK, NoFaults, FlashError, PowerLoss
<1>3. Inv /\ Calm /\ [Next]_vars =>
        /\ Context /\ BlankInv /\ FullInv /\ NoFaults
        /\ ~ (job = "transfer" /\ Stuck /\ pc = "data")
  <2> SUFFICES ASSUME Inv, Calm, [Next]_vars
               PROVE  /\ Context /\ BlankInv /\ FullInv /\ NoFaults
                      /\ ~ (job = "transfer" /\ Stuck /\ pc = "data")
    OBVIOUS
  <2>1. fails = 0 /\ NoFaults
    BY <1>2
  <2>2. Context /\ BlankInv /\ FullInv /\ CopyInv /\ PagesInv
    BY <2>1 DEF Context, FreshInv, ShapeInv
  <2>3. ~ (job = "transfer" /\ Stuck /\ pc = "data")
    BY <2>2, RoomLeft DEF Context, Storing
  <2>4. QED
    BY <2>1, <2>2, <2>3
<1>4. Inv /\ Calm /\ [Next]_vars => Calm'
  BY <1>3, StepCalm, StepRoom
<1>5. Inv /\ Calm /\ [Next]_vars => [Store!Next]_<<Contents, Calling>>
  BY <1>3, StepRefines
<1>6. Init => Store!Init
  <2> SUFFICES ASSUME Init PROVE Store!Init
    OBVIOUS
  <2>1. slot[ActivePage] = BlankPage /\ Calling = <<>>
    BY ActivePageType DEF Init, Calling
  <2>2. Contents = [a \in Vars |-> Blank]
    BY <2>1, ContentsAre, BlankHolds DEF PageMap
  <2>3. QED
    BY <2>1, <2>2 DEF Store!Init
<1> HIDE DEF Inv, Calm
<1>7. Spec => []Inv
  BY FreshAlways DEF Inv
<1>8. QED
  BY <1>1, <1>4, <1>5, <1>6, <1>7, PTL DEF Spec, ImplementsStore, Store!Spec
=============================================================================
