--------------------------- MODULE DatabaseProofs ---------------------------
(***************************************************************************)
(* Theorems about the settings store, for every number of scenes, every    *)
(* set of texts and every set of scene numbers a request may carry.        *)
(***************************************************************************)
EXTENDS Database, TLAPS

USE MaxScenesAssumption, TextAssumption, SceneArgsAssumption

Whole(image) == \A r \in Records : image[r] # Erased

\* Why the properties hold: what is in the sector at each point of a write.
SectorInv ==
    /\ phase \in {"clearing", "saving"} => flash = Torn(Buffer, written)
    /\ phase = "idle" => flash = mem \/ flash = BlankImage
    /\ phase = "cleared" => flash = BlankImage /\ mem = BlankImage
    /\ SetUp(flash) => Whole(flash)

\* What is in memory, and which setup is pending.
MemoryInv ==
    /\ phase = "saving" => SetUp(mem)
    /\ phase \in {"idle", "saving"} => Whole(mem)
    /\ phase = "clearing" /\ job = NoJob => Whole(mem)
    /\ phase \in {"idle", "saving", "off"} => job = NoJob
    /\ phase = "cleared" => job # NoJob

IInv == TypeOK /\ SectorInv /\ MemoryInv

-----------------------------------------------------------------------------
LEMMA Layout ==
    /\ WifiSsidIndex \in Records
    /\ WifiPasswdIndex \in Records
    /\ MagicWordIndex \in Records
    /\ SceneRecords \subseteq Records
    /\ RecordCount \in Nat
    /\ MagicWordIndex = RecordCount - 1
BY DEF WifiSsidIndex, WifiPasswdIndex, MagicWordIndex, SceneRecords, Records, RecordCount

LEMMA JobShape == \A j \in Jobs : j # NoJob =>
    /\ j.ssid \in Texts \cup {DefaultSsid}
    /\ j.passwd \in Texts \cup {DefaultPasswd}
BY DEF Jobs

LEMMA ARealJobIsSetup ==
    ASSUME NEW ssid, NEW passwd
    PROVE  [ssid |-> ssid, passwd |-> passwd] # NoJob
<1>1. DOMAIN [ssid |-> ssid, passwd |-> passwd] = {"ssid", "passwd"}
  OBVIOUS
<1>2. DOMAIN NoJob = {"setup"}
  BY DEF NoJob
<1>3. "setup" # "ssid" /\ "setup" # "passwd"
  OBVIOUS
<1>. QED BY <1>1, <1>2, <1>3

LEMMA ImageFacts ==
    /\ BlankImage \in Images /\ ErasedImage \in Images
    /\ Whole(BlankImage) /\ ~SetUp(BlankImage)
    /\ ~SetUp(ErasedImage)
BY Layout DEF BlankImage, ErasedImage, Images, Values, Whole, SetUp

\* What save() is about to write is an image, marked and whole.
LEMMA MarkedFacts ==
    ASSUME NEW image \in Images, Whole(image)
    PROVE  /\ Marked(image) \in Images
           /\ Whole(Marked(image))
           /\ SetUp(Marked(image))
BY Layout DEF Images, Values, Marked, Whole, SetUp

LEMMA CredentialsFacts ==
    ASSUME NEW image \in Images, Whole(image),
           NEW ssid \in Texts \cup {DefaultSsid}, NEW passwd \in Texts \cup {DefaultPasswd}
    PROVE  /\ WithCredentials(image, ssid, passwd) \in Images
           /\ Whole(WithCredentials(image, ssid, passwd))
BY Layout DEF Images, Values, WithCredentials, Whole

LEMMA TextFacts ==
    ASSUME NEW image \in Images, Whole(image), NEW entries, NEW text \in Texts
    PROVE  /\ WithText(image, entries, text) \in Images
           /\ Whole(WithText(image, entries, text))
BY DEF Images, Values, WithText, Whole

LEMMA TornFacts ==
    ASSUME NEW image \in Images
    PROVE  /\ \A n \in Nat : Torn(image, n) \in Images
           /\ \A n \in 0 .. RecordCount - 1 : ~SetUp(Torn(image, n))
           /\ Torn(image, 0) = ErasedImage
           /\ Torn(image, RecordCount) = image
           /\ \A n \in 0 .. RecordCount - 1 :
                [Torn(image, n) EXCEPT ![n] = image[n]] = Torn(image, n + 1)
<1>. USE Layout
<1>1. \A n \in Nat : Torn(image, n) \in Images
  BY DEF Torn, Images, Values
<1>2. \A n \in 0 .. RecordCount - 1 : ~SetUp(Torn(image, n))
  BY DEF Torn, SetUp
<1>3. Torn(image, 0) = ErasedImage
  BY DEF Torn, ErasedImage, Records
<1>4. Torn(image, RecordCount) = image
  BY DEF Torn, Images, Records
<1>5. ASSUME NEW n \in 0 .. RecordCount - 1
      PROVE  [Torn(image, n) EXCEPT ![n] = image[n]] = Torn(image, n + 1)
  <2>1. \A r \in Records : r < n + 1 <=> (r < n \/ r = n)
    BY DEF Records
  <2>2. n \in Records
    BY DEF Records
  <2>. QED BY <2>1, <2>2 DEF Torn
<1>. QED BY <1>1, <1>2, <1>3, <1>4, <1>5

\* A write that begins leaves an erased sector, which is the torn image of
\* whatever is going to be programmed.
LEMMA EraseFacts ==
    ASSUME NEW image \in Images
    PROVE  /\ 0 \in 0 .. RecordCount
           /\ ErasedImage = Torn(image, 0)
           /\ ~SetUp(ErasedImage)
BY Layout, TornFacts, ImageFacts


-----------------------------------------------------------------------------
LEMMA InitHolds == Init => IInv
BY Layout, ImageFacts, TornFacts
   DEF Init, IInv, TypeOK, SectorInv, MemoryInv, Phases, Jobs, Whole

\* A save of a whole image keeps the invariant, whoever asks for it.
LEMMA SaveKeepsInv ==
    ASSUME IInv, NEW image \in Images, Whole(image), SaveAs(image), job' = NoJob
    PROVE  IInv'
<1>1. Marked(image) \in Images /\ Whole(Marked(image)) /\ SetUp(Marked(image))
  BY MarkedFacts
<1>2. mem' = Marked(image) /\ flash' = ErasedImage /\ written' = 0 /\ phase' = "saving"
  BY DEF SaveAs, EraseFor
<1>3. TypeOK'
  BY <1>1, <1>2, Layout, ImageFacts DEF TypeOK, Phases, Jobs
<1>4. SectorInv'
  BY <1>1, <1>2, TornFacts, ImageFacts DEF SectorInv, Buffer
<1>5. MemoryInv'
  BY <1>1, <1>2 DEF MemoryInv, Whole, SetUp
<1>. QED BY <1>3, <1>4, <1>5 DEF IInv

\* So does the start of a clear.
LEMMA ClearKeepsInv ==
    ASSUME IInv, EraseFor("clearing"), mem' \in Images, job' \in Jobs,
           job' = NoJob => Whole(mem')
    PROVE  IInv'
<1>1. flash' = ErasedImage /\ written' = 0 /\ phase' = "clearing"
  BY DEF EraseFor
<1>2. TypeOK'
  BY <1>1, Layout, ImageFacts DEF TypeOK, Phases
<1>3. SectorInv'
  BY <1>1, TornFacts, ImageFacts DEF SectorInv, Buffer
<1>4. MemoryInv'
  BY <1>1 DEF MemoryInv, Whole
<1>. QED BY <1>2, <1>3, <1>4 DEF IInv

\* Reading records again keeps the invariant between requests.
LEMMA RefreshKeepsInv ==
    ASSUME IInv, phase = "idle", NEW records, Refresh(records),
           UNCHANGED <<flash, phase, written, job>>
    PROVE  IInv'
<1>1. mem \in Images /\ flash \in Images /\ Whole(mem) /\ Whole(flash)
  BY ImageFacts DEF IInv, TypeOK, SectorInv, MemoryInv
<1>2. mem' \in Images /\ Whole(mem')
  BY <1>1 DEF Refresh, ReadRecord, Images, Whole
<1>3. flash = mem => mem' = mem
  BY <1>1 DEF Refresh, ReadRecord, Images
<1>4. TypeOK'
  BY <1>2 DEF IInv, TypeOK
<1>5. SectorInv'
  BY <1>1, <1>3 DEF IInv, SectorInv, Whole, SetUp
<1>6. MemoryInv'
  BY <1>2 DEF IInv, MemoryInv, Whole
<1>. QED BY <1>4, <1>5, <1>6 DEF IInv

LEMMA BeginKeepsInv == IInv /\ Begin => IInv'
<1>. SUFFICES ASSUME IInv, Begin PROVE IInv'
  OBVIOUS
<1>. USE DEF Begin
<1>1. mem' = flash /\ flash \in Images /\ phase = "off"
  BY DEF IInv, TypeOK, Images, ReadAllEntries, ReadAllRecords, ReadRecord
<1>2. CASE SetUp(flash)
  <2>1. Whole(flash) /\ job = NoJob /\ UNCHANGED <<flash, written, job>> /\ phase' = "idle"
    BY <1>1, <1>2 DEF IInv, SectorInv, MemoryInv
  <2>2. TypeOK'
    BY <1>1, <2>1 DEF IInv, TypeOK, Phases
  <2>3. SectorInv'
    BY <1>1, <2>1 DEF SectorInv, Whole
  <2>4. MemoryInv'
    BY <1>1, <2>1 DEF MemoryInv, Whole
  <2>. QED BY <2>2, <2>3, <2>4 DEF IInv
<1>3. CASE ~SetUp(flash)
  <2>1. EraseFor("clearing") /\ job' = [ssid |-> DefaultSsid, passwd |-> DefaultPasswd]
    BY <1>3
  <2>2. job' \in Jobs /\ job' # NoJob
    BY <2>1, ARealJobIsSetup DEF Jobs
  <2>. QED BY <1>1, <2>1, <2>2, ClearKeepsInv
<1>. QED BY <1>2, <1>3

LEMMA ProgramKeepsInv == IInv /\ ProgramRecord => IInv'
<1>. SUFFICES ASSUME IInv, ProgramRecord PROVE IInv'
  OBVIOUS
<1>1. /\ Buffer \in Images /\ Buffer' = Buffer /\ Whole(Buffer)
      /\ flash = Torn(Buffer, written)
      /\ written \in 0 .. RecordCount - 1
      /\ phase \in {"clearing", "saving"}
  BY Layout, ImageFacts DEF ProgramRecord, IInv, TypeOK, SectorInv, MemoryInv, Buffer
<1>2. flash' = Torn(Buffer', written') /\ written' = written + 1
  BY <1>1, TornFacts DEF ProgramRecord
<1>3. flash' \in Images
  BY <1>1, <1>2, TornFacts, Layout
<1>4. SetUp(flash') => Whole(flash')
  <2>1. CASE written' = RecordCount
    BY <1>1, <1>2, <2>1, TornFacts
  <2>2. CASE written' # RecordCount
    <3>1. written' \in 0 .. RecordCount - 1
      BY <1>1, <1>2, <2>2, Layout
    <3>. QED BY <1>1, <1>2, <3>1, TornFacts
  <2>. QED BY <2>1, <2>2
<1>5. TypeOK'
  BY <1>1, <1>2, <1>3, Layout DEF IInv, TypeOK, ProgramRecord
<1>6. SectorInv'
  BY <1>1, <1>2, <1>4 DEF SectorInv, ProgramRecord, Whole, SetUp
<1>7. MemoryInv'
  BY DEF IInv, MemoryInv, ProgramRecord, Whole, SetUp
<1>. QED BY <1>5, <1>6, <1>7 DEF IInv

LEMMA FinishClearKeepsInv == IInv /\ FinishClear => IInv'
<1>. SUFFICES ASSUME IInv, FinishClear PROVE IInv'
  OBVIOUS
<1>1. flash = BlankImage
  BY ImageFacts, TornFacts DEF IInv, SectorInv, Buffer, FinishClear
<1>2. TypeOK'
  BY ImageFacts DEF IInv, TypeOK, FinishClear, Phases
<1>3. SectorInv'
  BY <1>1, ImageFacts DEF SectorInv, FinishClear, Whole, SetUp
<1>4. MemoryInv'
  BY DEF IInv, MemoryInv, FinishClear, Whole
<1>. QED BY <1>2, <1>3, <1>4 DEF IInv

LEMMA FinishSaveKeepsInv == IInv /\ FinishSave => IInv'
<1>. SUFFICES ASSUME IInv, FinishSave PROVE IInv'
  OBVIOUS
<1>1. flash = mem
  BY TornFacts DEF IInv, TypeOK, SectorInv, Buffer, FinishSave
<1>2. TypeOK'
  BY DEF IInv, TypeOK, FinishSave, Phases
<1>3. SectorInv'
  BY <1>1 DEF IInv, SectorInv, FinishSave, Whole, SetUp
<1>4. MemoryInv'
  BY DEF IInv, MemoryInv, FinishSave, Whole
<1>. QED BY <1>2, <1>3, <1>4 DEF IInv

LEMMA PowerLossKeepsInv == IInv /\ PowerLoss => IInv'
<1>. SUFFICES ASSUME IInv, PowerLoss PROVE IInv'
  OBVIOUS
<1>1. TypeOK'
  BY ImageFacts DEF IInv, TypeOK, PowerLoss, Phases, Jobs
<1>2. SectorInv'
  BY DEF IInv, SectorInv, PowerLoss, Whole, SetUp
<1>3. MemoryInv'
  BY DEF MemoryInv, PowerLoss
<1>. QED BY <1>1, <1>2, <1>3 DEF IInv

LEMMA RequestKeepsInv == IInv /\ Requested => IInv'
<1>. SUFFICES ASSUME IInv, Requested PROVE IInv'
  OBVIOUS
<1>1. phase = "idle" /\ mem \in Images /\ Whole(mem) /\ job = NoJob
  BY DEF IInv, TypeOK, MemoryInv, Requested, Setup, SetupClearing, RenameScene,
         ClearSceneNames, GetSceneNames, Status
<1>2. ASSUME NEW ssid \in Texts, NEW passwd \in Texts, Setup(ssid, passwd)
      PROVE  IInv'
  <2>1. SaveAs(WithCredentials(mem, ssid, passwd)) /\ job' = NoJob
    BY <1>1, <1>2 DEF Setup
  <2>. QED BY <1>1, <2>1, CredentialsFacts, SaveKeepsInv
<1>3. ASSUME NEW ssid \in Texts, NEW passwd \in Texts, SetupClearing(ssid, passwd)
      PROVE  IInv'
  <2>1. EraseFor("clearing") /\ mem' = mem /\ job' = [ssid |-> ssid, passwd |-> passwd]
    BY <1>3 DEF SetupClearing
  <2>2. job' \in Jobs /\ job' # NoJob
    BY <2>1, ARealJobIsSetup DEF Jobs
  <2>. QED BY <1>1, <2>1, <2>2, ClearKeepsInv
<1>4. ASSUME NEW scene \in SceneArgs, NEW name \in Texts, RenameScene(scene, name)
      PROVE  IInv'
  <2>1. PICK entries \in EntriesFor(scene - 1) : SaveAs(WithText(mem, entries, name))
    BY <1>4 DEF RenameScene
  <2>2. job' = NoJob
    BY <1>1, <1>4 DEF RenameScene
  <2>. QED BY <1>1, <2>1, <2>2, TextFacts, SaveKeepsInv
<1>5. CASE ClearSceneNames
  <2>1. EraseFor("clearing") /\ mem' = mem /\ job' = NoJob
    BY <1>1, <1>5 DEF ClearSceneNames
  <2>. QED BY <1>1, <2>1, ClearKeepsInv DEF Jobs, Whole
<1>6. CASE GetSceneNames
  BY <1>1, <1>6, RefreshKeepsInv DEF GetSceneNames
<1>7. CASE Status
  BY <1>1, <1>7, RefreshKeepsInv DEF Status
<1>. QED BY <1>2, <1>3, <1>4, <1>5, <1>6, <1>7 DEF Requested

LEMMA SetupAfterClearKeepsInv == IInv /\ SetupAfterClear => IInv'
<1>. SUFFICES ASSUME IInv, SetupAfterClear PROVE IInv'
  OBVIOUS
<1>1. mem \in Images /\ Whole(mem) /\ job \in Jobs /\ job # NoJob
  BY ImageFacts DEF IInv, TypeOK, SectorInv, MemoryInv, SetupAfterClear
<1>2. job.ssid \in Texts \cup {DefaultSsid} /\ job.passwd \in Texts \cup {DefaultPasswd}
  BY <1>1, JobShape
<1>3. SaveAs(WithCredentials(mem, job.ssid, job.passwd)) /\ job' = NoJob
  BY DEF SetupAfterClear
<1>. QED BY <1>1, <1>2, <1>3, CredentialsFacts, SaveKeepsInv

LEMMA StutterKeepsInv == IInv /\ UNCHANGED vars => IInv'
BY DEF vars, IInv, TypeOK, SectorInv, MemoryInv, Buffer, Whole, SetUp

LEMMA NextKeepsInv == IInv /\ [Next]_vars => IInv'
BY BeginKeepsInv, ProgramKeepsInv, FinishClearKeepsInv, FinishSaveKeepsInv,
   SetupAfterClearKeepsInv, RequestKeepsInv, PowerLossKeepsInv, StutterKeepsInv
   DEF Next, Working

\* The inductive invariant holds throughout.
THEOREM Invariance == Spec => []IInv
<1>1. Init => IInv
  BY InitHolds
<1>2. IInv /\ [Next]_vars => IInv'
  BY NextKeepsInv
<1>. QED BY <1>1, <1>2, PTL DEF Spec

\* Every variable of the store stays within its type.
THEOREM TypeCorrect == Spec => []TypeOK
<1>1. IInv => TypeOK
  BY DEF IInv
<1>. QED BY <1>1, Invariance, PTL

\* The magic word marks a whole store (hasBeenSetUp can be relied on), for every
\* layout with the word in the last record and every pattern of power losses.
THEOREM MagicWordIsCommitMark == Spec => []MagicWordMarksWholeStore
<1>1. IInv => MagicWordMarksWholeStore
  BY DEF IInv, SectorInv, MagicWordMarksWholeStore, Whole
<1>. QED BY <1>1, Invariance, PTL

\* Between requests the memory holds what a set-up store holds.
THEOREM MemoryIsCurrent == Spec => []MemoryAgreesWithFlash
<1>1. IInv => MemoryAgreesWithFlash
  BY ImageFacts DEF IInv, SectorInv, MemoryAgreesWithFlash
<1>. QED BY <1>1, Invariance, PTL


-----------------------------------------------------------------------------
\* Each step is a step of SceneStore on what the callers see, or changes
\* nothing there.

AbstractStep == Abstract!StoreNext \/ UNCHANGED <<Store, Last, Writing>>

\* The layout SceneStore extends is the layout this module extends.
LEMMA SameLayout ==
    /\ Abstract!Records = Records
    /\ Abstract!RecordCount = RecordCount
    /\ Abstract!BlankImage = BlankImage
    /\ Abstract!ErasedImage = ErasedImage
    /\ \A image : Abstract!Marked(image) = Marked(image)
    /\ \A image, n : Abstract!Torn(image, n) = Torn(image, n)
    /\ \A image, ssid, passwd :
         Abstract!WithCredentials(image, ssid, passwd) = WithCredentials(image, ssid, passwd)
    /\ \A image, entries, text :
         Abstract!WithText(image, entries, text) = WithText(image, entries, text)
BY DEF Abstract!Records, Records, Abstract!RecordCount, RecordCount,
       Abstract!BlankImage, BlankImage, Abstract!ErasedImage, ErasedImage,
       Abstract!Marked, Marked, Abstract!MagicWordIndex, MagicWordIndex,
       Abstract!Torn, Torn, Abstract!WithText, WithText,
       Abstract!WithCredentials, WithCredentials,
       Abstract!WifiSsidIndex, WifiSsidIndex, Abstract!WifiPasswdIndex, WifiPasswdIndex

\* What the callers see of the memory: it is what the next save starts from.
LEMMA LastIsMemory ==
    ASSUME IInv, phase \in {"idle", "cleared"}
    PROVE  Last = mem /\ Store = flash /\ ~Writing
BY ImageFacts DEF IInv, SectorInv, Last, Store, Writing, SetUp

\* A save that is begun is an abstract save.
LEMMA SaveIsAbstractSave ==
    ASSUME IInv, NEW image \in Images, Whole(image), SaveAs(image), ~Writing
    PROVE  Abstract!Save(image)
<1>1. mem' = Marked(image) /\ phase' = "saving" /\ SetUp(Marked(image))
  BY MarkedFacts DEF SaveAs, EraseFor
<1>2. Store' = Marked(image) /\ Last' = Marked(image) /\ Writing'
  BY <1>1 DEF Store, Last, Writing, SetUp
<1>. QED BY <1>1, <1>2, SameLayout DEF Abstract!Save, Writing

LEMMA ClearIsWipe ==
    ASSUME IInv, EraseFor("clearing"), Last = mem', ~Writing
    PROVE  Abstract!Wipe
<1>1. phase' = "clearing" /\ Store' = BlankImage /\ ~SetUp(Store')
  BY ImageFacts DEF EraseFor, Store, SetUp
<1>2. Last' = mem'
  BY <1>1 DEF Last, SetUp
<1>. QED BY <1>1, <1>2, SameLayout DEF Abstract!Wipe, Writing

\* Nothing is stored, and some records may be read again.
LEMMA QuietIsSettle ==
    ASSUME NEW records \in SUBSET Records, Store' = Store, ~Writing',
           Last' = [r \in Records |-> IF r \in records THEN Store[r] ELSE Last[r]]
    PROVE  Abstract!StoreNext
BY SameLayout DEF Abstract!StoreNext, Abstract!Settle, Writing

LEMMA BeginRefines == IInv /\ Begin => AbstractStep
<1>. SUFFICES ASSUME IInv, Begin PROVE AbstractStep
  OBVIOUS
<1>1. phase = "off" /\ mem' = flash /\ Store = flash /\ Last = flash /\ ~Writing
  BY DEF IInv, TypeOK, Images, Begin, ReadAllEntries, ReadAllRecords, ReadRecord,
         Store, Last, Writing, SetUp
<1>2. CASE SetUp(flash)
  <2>1. phase' = "idle" /\ flash' = flash
    BY <1>2 DEF Begin
  <2>2. Store' = Store /\ Last' = Last /\ Writing' = Writing
    BY <1>1, <2>1 DEF Store, Last, Writing, SetUp
  <2>. QED BY <2>2 DEF AbstractStep
<1>3. CASE ~SetUp(flash)
  <2>1. EraseFor("clearing")
    BY <1>3 DEF Begin
  <2>. QED BY <1>1, <2>1, ClearIsWipe DEF AbstractStep, Abstract!StoreNext
<1>. QED BY <1>2, <1>3

LEMMA ProgramRefines == IInv /\ ProgramRecord => AbstractStep
BY DEF ProgramRecord, AbstractStep, Store, Last, Writing, SetUp

LEMMA FinishClearRefines == IInv /\ FinishClear => AbstractStep
<1>. SUFFICES ASSUME IInv, FinishClear PROVE AbstractStep
  OBVIOUS
<1>1. /\ flash = BlankImage /\ flash' = flash /\ mem \in Images
      /\ phase = "clearing" /\ phase' \in {"idle", "cleared"}
      /\ Store = BlankImage /\ Store' = BlankImage /\ ~Writing' /\ Last = mem /\ Last' = mem'
  BY ImageFacts, TornFacts
     DEF IInv, TypeOK, SectorInv, Buffer, FinishClear, Store, Last, Writing, SetUp
<1>2. CASE job = NoJob
  <2>1. Last' = [r \in Records |-> IF r \in {} THEN Store[r] ELSE Last[r]]
    BY <1>1, <1>2 DEF FinishClear, Images
  <2>2. Store' = Store /\ ~Writing' /\ {} \in SUBSET Records
    BY <1>1
  <2>3. Abstract!StoreNext
    BY <2>1, <2>2, QuietIsSettle
  <2>. QED BY <2>3 DEF AbstractStep
<1>3. CASE job # NoJob
  <2>1. mem' = [r \in Records |-> IF r \in Records THEN Store[r] ELSE Last[r]]
    BY <1>1, <1>3 DEF FinishClear, BlankImage
  <2>. QED BY <1>1, <2>1, QuietIsSettle DEF AbstractStep
<1>. QED BY <1>2, <1>3

LEMMA FinishSaveRefines == IInv /\ FinishSave => AbstractStep
<1>. SUFFICES ASSUME IInv, FinishSave PROVE AbstractStep
  OBVIOUS
<1>1. /\ flash = mem /\ flash' = flash /\ mem' = mem /\ mem \in Images /\ SetUp(mem)
      /\ phase = "saving" /\ phase' = "idle"
  BY TornFacts DEF IInv, TypeOK, SectorInv, MemoryInv, Buffer, FinishSave
<1>2. Store = mem /\ Store' = mem /\ Last = mem /\ Last' = mem /\ ~Writing'
  BY <1>1 DEF Store, Last, Writing, SetUp
<1>3. mem = [r \in Records |-> IF r \in {} THEN Store[r] ELSE Last[r]]
  BY <1>1, <1>2 DEF Images
<1>. QED BY <1>2, <1>3, QuietIsSettle DEF AbstractStep

LEMMA SetupAfterClearRefines == IInv /\ SetupAfterClear => AbstractStep
<1>. SUFFICES ASSUME IInv, SetupAfterClear PROVE AbstractStep
  OBVIOUS
<1>1. mem \in Images /\ Whole(mem) /\ job \in Jobs /\ job # NoJob
  BY ImageFacts DEF IInv, TypeOK, SectorInv, MemoryInv, SetupAfterClear
<1>2. job.ssid \in Texts \cup {DefaultSsid} /\ job.passwd \in Texts \cup {DefaultPasswd}
  BY <1>1, JobShape
<1>3. Last = mem /\ ~Writing
  BY LastIsMemory DEF SetupAfterClear
<1>4. Abstract!Configure(job.ssid, job.passwd)
  BY <1>1, <1>2, <1>3, CredentialsFacts, SaveIsAbstractSave, SameLayout
     DEF SetupAfterClear, Abstract!Configure
<1>. QED BY <1>2, <1>4 DEF AbstractStep, Abstract!StoreNext

LEMMA ReadRefines ==
    ASSUME IInv, phase = "idle", NEW records \in SUBSET Records, Refresh(records),
           UNCHANGED <<flash, phase, written, job>>
    PROVE  AbstractStep
<1>1. Last = mem /\ Store = flash /\ ~Writing /\ mem \in Images
  BY LastIsMemory DEF IInv, TypeOK
<1>2. IInv' /\ phase' = "idle"
  BY RefreshKeepsInv
<1>3. Last' = mem' /\ Store' = flash' /\ ~Writing'
  <2>1. flash' = mem' \/ flash' = BlankImage
    BY <1>2 DEF IInv, SectorInv
  <2>. QED BY <1>2, <2>1, ImageFacts DEF Last, Store, Writing, SetUp
<1>4. Last' = [r \in Records |-> IF r \in records THEN Store[r] ELSE Last[r]]
  BY <1>1, <1>3 DEF Refresh, ReadRecord
<1>. QED BY <1>1, <1>3, <1>4, QuietIsSettle DEF AbstractStep

LEMMA RequestRefines == IInv /\ Requested => AbstractStep
<1>. SUFFICES ASSUME IInv, Requested PROVE AbstractStep
  OBVIOUS
<1>1. phase = "idle" /\ mem \in Images /\ Whole(mem) /\ job = NoJob
  BY DEF IInv, TypeOK, MemoryInv, Requested, Setup, SetupClearing, RenameScene,
         ClearSceneNames, GetSceneNames, Status
<1>2. Last = mem /\ ~Writing
  BY <1>1, LastIsMemory
<1>3. ASSUME NEW ssid \in Texts, NEW passwd \in Texts, Setup(ssid, passwd)
      PROVE  AbstractStep
  <2>1. SaveAs(WithCredentials(mem, ssid, passwd))
    BY <1>3 DEF Setup
  <2>2. Abstract!Configure(ssid, passwd)
    BY <1>1, <1>2, <2>1, CredentialsFacts, SaveIsAbstractSave, SameLayout
       DEF Abstract!Configure
  <2>. QED BY <2>2 DEF AbstractStep, Abstract!StoreNext
<1>4. ASSUME NEW ssid \in Texts, NEW passwd \in Texts, SetupClearing(ssid, passwd)
      PROVE  AbstractStep
  <2>1. EraseFor("clearing") /\ mem' = mem
    BY <1>4 DEF SetupClearing
  <2>. QED BY <1>2, <2>1, ClearIsWipe DEF AbstractStep, Abstract!StoreNext
<1>5. ASSUME NEW scene \in SceneArgs, NEW name \in Texts, RenameScene(scene, name)
      PROVE  AbstractStep
  <2>1. PICK entries \in EntriesFor(scene - 1) : SaveAs(WithText(mem, entries, name))
    BY <1>5 DEF RenameScene
  <2>2. entries \in SUBSET Records /\ \A r, s \in entries : r = s
    BY DEF EntriesFor
  <2>3. Abstract!Rename(entries, name)
    BY <1>1, <1>2, <2>1, <2>2, TextFacts, SaveIsAbstractSave, SameLayout
       DEF Abstract!Rename
  <2>. QED BY <2>2, <2>3, SameLayout DEF AbstractStep, Abstract!StoreNext
<1>6. CASE ClearSceneNames
  <2>1. EraseFor("clearing") /\ mem' = mem
    BY <1>6 DEF ClearSceneNames
  <2>. QED BY <1>2, <2>1, ClearIsWipe DEF AbstractStep, Abstract!StoreNext
<1>7. CASE GetSceneNames
  BY <1>1, <1>7, Layout, ReadRefines DEF GetSceneNames
<1>8. CASE Status
  BY <1>1, <1>8, Layout, ReadRefines DEF Status
<1>. QED BY <1>3, <1>4, <1>5, <1>6, <1>7, <1>8 DEF Requested

LEMMA PowerLossRefines == IInv /\ PowerLoss => AbstractStep
<1>. SUFFICES ASSUME IInv, PowerLoss PROVE AbstractStep
  OBVIOUS
<1>1. flash' = flash /\ Store' = flash /\ Last' = flash /\ ~Writing' /\ flash \in Images
  BY DEF IInv, TypeOK, PowerLoss, Store, Last, Writing, SetUp
<1>2. flash = [r \in Records |-> flash[r]]
  BY <1>1 DEF Images
<1>3. CASE ~Writing
  <2>1. Store = flash
    BY <1>3 DEF Store, Writing
  <2>2. Last' = [r \in Records |-> IF r \in Records THEN Store[r] ELSE Last[r]]
    BY <1>1, <1>2, <2>1
  <2>. QED BY <1>1, <2>1, <2>2, QuietIsSettle DEF AbstractStep
<1>4. CASE Writing
  <2>1. Store = Buffer /\ flash = Torn(Buffer, written) /\ Buffer \in Images
        /\ written \in 0 .. RecordCount
    BY <1>4, ImageFacts DEF Store, Writing, Buffer, IInv, TypeOK, SectorInv
  <2>2. CASE written = RecordCount
    <3>1. Store = flash
      BY <2>1, <2>2, TornFacts
    <3>2. Last' = [r \in Records |-> IF r \in Records THEN Store[r] ELSE Last[r]]
      BY <1>1, <1>2, <3>1
    <3>. QED BY <1>1, <3>1, <3>2, QuietIsSettle DEF AbstractStep
  <2>3. CASE written # RecordCount
    <3>1. written \in 0 .. RecordCount - 1
      BY <2>1, <2>3, Layout
    <3>2. Abstract!LoseInWrite
      BY <1>1, <1>4, <2>1, <3>1, SameLayout DEF Abstract!LoseInWrite, Writing
    <3>. QED BY <3>2 DEF AbstractStep, Abstract!StoreNext
  <2>. QED BY <2>2, <2>3
<1>. QED BY <1>3, <1>4

LEMMA StutterRefines == UNCHANGED vars => AbstractStep
BY DEF vars, AbstractStep, Store, Last, Writing, SetUp

\* The flash store with its copy in memory, its two-commit setup and its power
\* losses implements SceneStore.
THEOREM DatabaseImplementsStore == Spec => ImplementsStore
<1>1. Init => Abstract!StoreInit
  BY ImageFacts, SameLayout DEF Init, Abstract!StoreInit, Store, Last, Writing, SetUp
<1>2. IInv /\ [Next]_vars => [Abstract!StoreNext]_(Abstract!storeVars)
  <2>1. IInv /\ [Next]_vars => AbstractStep
    BY BeginRefines, ProgramRefines, FinishClearRefines, FinishSaveRefines,
       SetupAfterClearRefines, RequestRefines, PowerLossRefines, StutterRefines
       DEF Next, Working
  <2>. QED BY <2>1 DEF AbstractStep, Abstract!storeVars, Writing
<1>. QED BY <1>1, <1>2, Invariance, PTL DEF Spec, ImplementsStore, Abstract!StoreSpec


-----------------------------------------------------------------------------
\* No restart and no step of the device's own drops a store that is set up; only
\* a request and a power loss while it is programmed do.
THEOREM SetUpLasts == Spec => SetUpLastsUntilRequestOrTornWrite
<1>. DEFINE Kept == SetUp(Store) /\ ~SetUp(Store)'
                     => phase = "idle" \/ (phase = "saving" /\ phase' = "off")
<1>1. ASSUME IInv, Next PROVE Kept
  <2>1. CASE Begin
    BY <2>1 DEF Begin, Store, SetUp
  <2>2. CASE ProgramRecord
    BY <2>2 DEF ProgramRecord, Store, SetUp
  <2>3. CASE FinishClear
    BY <2>3, ImageFacts DEF FinishClear, Store
  <2>4. CASE FinishSave
    <3>1. flash = mem
      BY <1>1, <2>4, TornFacts DEF IInv, TypeOK, SectorInv, Buffer, FinishSave
    <3>. QED BY <2>4, <3>1 DEF FinishSave, Store, SetUp
  <2>5. CASE SetupAfterClear
    BY <1>1, <2>5, ImageFacts DEF SetupAfterClear, IInv, SectorInv, Store
  <2>6. CASE Requested
    BY <2>6 DEF Requested, Setup, SetupClearing, RenameScene, ClearSceneNames,
                GetSceneNames, Status
  <2>7. CASE PowerLoss
    BY <1>1, <2>7, ImageFacts DEF PowerLoss, IInv, SectorInv, TypeOK, Phases, Store, SetUp
  <2>. QED BY <1>1, <2>1, <2>2, <2>3, <2>4, <2>5, <2>6, <2>7 DEF Next, Working
<1>2. IInv /\ [Next]_vars => [Kept]_vars
  BY <1>1
<1>. QED BY <1>2, Invariance, PTL DEF Spec, SetUpLastsUntilRequestOrTornWrite

\* A setup that clears the database saves no scene name of before.
THEOREM NamesForgotten == Spec => ClearingSetupForgetsNames
<1>. DEFINE Forgets == phase = "cleared" /\ phase' = "saving"
                         => \A r \in SceneRecords : Store'[r] = Blank
<1>1. ASSUME IInv, Next, phase = "cleared", phase' = "saving"
      PROVE  \A r \in SceneRecords : Store'[r] = Blank
  <2>1. SetupAfterClear /\ mem = BlankImage
    BY <1>1 DEF Next, Working, Begin, ProgramRecord, FinishClear, FinishSave, PowerLoss,
                Requested, Setup, SetupClearing, RenameScene, ClearSceneNames,
                GetSceneNames, Status, IInv, SectorInv
  <2>2. Store' = Marked(WithCredentials(BlankImage, job.ssid, job.passwd))
    BY <2>1 DEF SetupAfterClear, SaveAs, EraseFor, Store
  <2>3. ASSUME NEW r \in SceneRecords
        PROVE  r \in Records \ {WifiSsidIndex, WifiPasswdIndex, MagicWordIndex}
    BY DEF SceneRecords, Records, RecordCount, WifiSsidIndex, WifiPasswdIndex, MagicWordIndex
  <2>. QED BY <2>2, <2>3 DEF Marked, WithCredentials, BlankImage
<1>2. IInv /\ [Next]_vars => [Forgets]_vars
  BY <1>1
<1>. QED BY <1>2, Invariance, PTL DEF Spec, ClearingSetupForgetsNames

-----------------------------------------------------------------------------
\* What is left to do until the device is idle, counted in steps.
WorkLeft ==
    CASE phase = "idle"     -> 0
      [] phase = "saving"   -> 1 + (RecordCount - written)
      [] phase = "cleared"  -> RecordCount + 2
      [] phase = "clearing" -> RecordCount + 3 + (RecordCount - written)
      [] phase = "off"      -> RecordCount + RecordCount + 4

\* The step on which StartsUp rests: whatever the store does on its own brings it
\* nearer to being idle, and unless it was asked to clear the store, it is idle
\* only on a store that is set up (begin, setup, clear, save).
THEOREM WorkComesToAnEnd ==
    Spec => [][Working => /\ WorkLeft' \in Nat /\ WorkLeft' < WorkLeft
                          /\ phase' = "idle" =>
                                SetUp(flash') \/ (phase = "clearing" /\ job = NoJob)]_vars
<1>. DEFINE Nearer == WorkLeft' \in Nat /\ WorkLeft' < WorkLeft
            Ready == phase' = "idle" => SetUp(flash') \/ (phase = "clearing" /\ job = NoJob)
<1>1. ASSUME IInv, Working PROVE Nearer /\ Ready
  <2>. RecordCount \in Nat /\ written \in 0 .. RecordCount
    BY <1>1, Layout DEF IInv, TypeOK
  <2>1. CASE Begin
    <3>1. CASE SetUp(flash)
      BY <2>1, <3>1 DEF Begin, WorkLeft
    <3>2. CASE ~SetUp(flash)
      BY <2>1, <3>2 DEF Begin, EraseFor, WorkLeft
    <3>. QED BY <3>1, <3>2
  <2>2. CASE ProgramRecord
    <3>1. written + 1 \in 0 .. RecordCount /\ written' = written + 1 /\ phase' = phase
      BY <2>2 DEF ProgramRecord
    <3>2. CASE phase = "saving"
      BY <3>1, <3>2 DEF WorkLeft
    <3>3. CASE phase = "clearing"
      BY <3>1, <3>3 DEF WorkLeft
    <3>. QED BY <2>2, <3>2, <3>3 DEF ProgramRecord
  <2>3. CASE FinishClear
    <3>1. CASE job = NoJob
      BY <2>3, <3>1 DEF FinishClear, WorkLeft
    <3>2. CASE job # NoJob
      BY <2>3, <3>2 DEF FinishClear, WorkLeft
    <3>. QED BY <3>1, <3>2
  <2>4. CASE FinishSave
    <3>1. flash' = mem /\ SetUp(mem)
      BY <1>1, <2>4, TornFacts DEF IInv, TypeOK, SectorInv, MemoryInv, Buffer, FinishSave
    <3>. QED BY <2>4, <3>1 DEF FinishSave, WorkLeft
  <2>5. CASE SetupAfterClear
    BY <2>5 DEF SetupAfterClear, SaveAs, EraseFor, WorkLeft
  <2>. QED BY <1>1, <2>1, <2>2, <2>3, <2>4, <2>5 DEF Working
<1>2. IInv /\ [Next]_vars => [Working => Nearer /\ Ready]_vars
  BY <1>1
<1>. QED BY <1>2, Invariance, PTL DEF Spec

=============================================================================
