-------------------------- MODULE Persistence_proofs --------------------------
(***************************************************************************)
(* For any providers, limits and bounds: a file that can be read holds what *)
(* memory has held (NothingInvented), however the hooks disturb one         *)
(* another and whenever the process ends; and where they do not, the file   *)
(* says what memory says once they have ended (SavedWhenIdle), a restart    *)
(* forgets no sanction (SanctionsSurvive), and a window lets through its    *)
(* number of requests over all restarts (QuotaAcrossRestarts).              *)
(*                                                                          *)
(* IInv says where every value on its way to a file comes from: what a hook *)
(* has captured, what it is about to write, and what every inode holds has  *)
(* been held by memory, and a name only ever refers to an inode that a hook *)
(* of its own provider has created.                                         *)
(*                                                                          *)
(* KeptIInv follows what the last pending hook of a kind, or else the file, *)
(* says of memory, and bounds the requests let through by what the file,    *)
(* every pending hook and memory have counted of them.                      *)
(***************************************************************************)
EXTENDS Persistence, SequenceTheorems, FiniteSetTheorems, TLAPS

HookRecords ==
  [provider : Providers, kind : {"routing", "windows"},
   blocked : Nat, exhausted : Nat, windows : Seq(Window),
   pc : Steps, draft : States, fd : 0..MaxSaves]

Contents == [text : {"whole", "empty", "torn"}, state : States]

Typed ==
  /\ now \in Nat /\ up \in BOOLEAN /\ hooked \in BOOLEAN
  /\ blocked \in [Providers -> Nat] /\ exhausted \in [Providers -> Nat]
  /\ windows \in [Providers -> Seq(Window)]
  /\ \A p \in Providers : windows[p] \in [DOMAIN Limits[p] -> Window]
  /\ saves \in Seq(HookRecords) /\ Len(saves) <= MaxSaves
  /\ \A s \in DOMAIN saves : saves[s].pc \in {"write", "rename"} => saves[s].fd # 0
  /\ path \in [Providers -> 0..MaxSaves] /\ tmp \in [Providers -> 0..MaxSaves]
  /\ content \in [1..MaxSaves -> Contents]
  /\ DOMAIN held = Providers

\* Memory has held both times of the state at one moment, and its windows.
Held(p, state) ==
  /\ <<state.blocked, state.exhausted>> \in held[p].routing
  /\ state.windows \in held[p].windows

NothingHeldFirst == \A p \in Providers : Held(p, NoState)

Captured(save) ==
  IF save.kind = "windows" THEN save.windows \in held[save.provider].windows
  ELSE <<save.blocked, save.exhausted>> \in held[save.provider].routing

CapturedHeld == \A s \in DOMAIN saves : saves[s].pc # "done" => Captured(saves[s])

DraftsHeld ==
  \A s \in DOMAIN saves :
    saves[s].pc \notin {"start", "done"} => Held(saves[s].provider, saves[s].draft)

\* An inode has the number of the hook that has created it.
Owned(i, p) == i # 0 => i \in DOMAIN saves /\ saves[i].provider = p

FilesHeld ==
  \A i \in 1..MaxSaves : content[i].text = "whole" =>
    i \in DOMAIN saves /\ Held(saves[i].provider, content[i].state)

NamesOwned ==
  /\ \A p \in Providers : Owned(path[p], p) /\ Owned(tmp[p], p)
  /\ \A s \in DOMAIN saves : Owned(saves[s].fd, saves[s].provider)

IInv == Typed /\ NothingHeldFirst /\ CapturedHeld /\ DraftsHeld /\ FilesHeld /\ NamesOwned

HeldGrows ==
  /\ DOMAIN held' = Providers
  /\ \A p \in Providers :
      held[p].routing \subseteq held'[p].routing /\ held[p].windows \subseteq held'[p].windows

-----------------------------------------------------------------------------

LEMMA SaveTypes ==
  ASSUME Typed
  PROVE  /\ DOMAIN saves = 1..Len(saves) /\ Len(saves) \in 0..MaxSaves
         /\ \A s \in DOMAIN saves : saves[s] \in HookRecords
         /\ \A s \in DOMAIN saves :
              saves[s].provider \in Providers /\ saves[s].draft \in States
<1>1. DOMAIN saves = 1..Len(saves) /\ Len(saves) \in 0..MaxSaves
  BY BoundsAssumption DEF Typed
<1>2. \A s \in DOMAIN saves : saves[s] \in HookRecords
  BY <1>1, ElementOfSeq DEF Typed
<1> QED
  BY <1>1, <1>2 DEF HookRecords

\* What a file that can be read holds is what its inode holds, or nothing.
LEMMA InvariantSuffices == IInv => NothingInvented /\ TypeOK
<1> SUFFICES ASSUME IInv PROVE NothingInvented /\ TypeOK
  OBVIOUS
<1> USE DEF IInv
<1>1. NothingInvented
  <2> SUFFICES ASSUME NEW p \in Providers, Parses(p)
               PROVE  Held(p, Loaded(p))
    BY DEF NothingInvented, Held
  <2>1. CASE path[p] = 0
    BY <2>1 DEF Loaded, NothingHeldFirst
  <2>2. CASE path[p] # 0
    <3>1. path[p] \in 1..MaxSaves /\ saves[path[p]].provider = p
      BY <2>2 DEF Typed, NamesOwned, Owned
    <3>2. Loaded(p) = content[path[p]].state /\ content[path[p]].text = "whole"
      BY <2>2 DEF Loaded, Parses
    <3> QED
      BY <3>1, <3>2 DEF FilesHeld
  <2> QED
    BY <2>1, <2>2
<1>2. TypeOK
  BY SaveTypes DEF Typed, TypeOK, HookRecords, Contents
<1> QED
  BY <1>1, <1>2

LEMMA StateTypes == NoState \in States /\ Empty \in Contents
  BY DEF NoState, States, Empty, Contents

LEMMA LimitTypes ==
  ASSUME NEW p \in Providers
  PROVE  /\ Limits[p] \in Seq(LimitConfig)
         /\ \A i \in DOMAIN Limits[p] : Limits[p][i] \in LimitConfig
         /\ \A ws \in [DOMAIN Limits[p] -> Window] : ws \in Seq(Window)
<1>1. Limits[p] \in Seq(LimitConfig)
  BY LimitsAssumption
<1>2. DOMAIN Limits[p] = 1..Len(Limits[p]) /\ Len(Limits[p]) \in Nat
  BY <1>1
<1> QED
  BY <1>1, <1>2

LEMMA ResetTimes ==
  ASSUME Typed, NEW p \in Providers, NEW i \in DOMAIN Limits[p]
  PROVE  now + Limits[p][i].window \in Nat
<1>1. now \in Nat
  BY DEF Typed
<1>2. Limits[p][i].window \in Nat
  BY LimitTypes DEF LimitConfig
<1> QED
  BY <1>1, <1>2

\* The rows of a fresh tracker, for any limits.
LEMMA EnsureTypes ==
  ASSUME NEW p \in Providers
  PROVE  EnsureWindows(Limits[p]) \in [DOMAIN Limits[p] -> Window]
  BY DEF EnsureWindows, NewWindow, Window

LEMMA InitIInv == Init => IInv
<1> SUFFICES ASSUME Init PROVE IInv
  OBVIOUS
<1>1. Typed
  <2>1. windows \in [Providers -> Seq(Window)]
    BY LimitTypes, EnsureTypes DEF Init
  <2>2. \A p \in Providers : windows[p] \in [DOMAIN Limits[p] -> Window]
    BY EnsureTypes DEF Init
  <2>3. saves \in Seq(HookRecords) /\ Len(saves) = 0 /\ DOMAIN saves = {}
    BY DEF Init
  <2>4. now \in Nat /\ up \in BOOLEAN /\ hooked \in BOOLEAN /\ DOMAIN held = Providers
    BY DEF Init
  <2>5. /\ blocked \in [Providers -> Nat] /\ exhausted \in [Providers -> Nat]
        /\ path \in [Providers -> 0..MaxSaves] /\ tmp \in [Providers -> 0..MaxSaves]
        /\ content \in [1..MaxSaves -> Contents]
    BY StateTypes, BoundsAssumption DEF Init
  <2>6. Len(saves) <= MaxSaves
    BY <2>3, BoundsAssumption
  <2> QED
    BY <2>1, <2>2, <2>3, <2>4, <2>5, <2>6 DEF Typed
<1>2. NothingHeldFirst
  BY DEF Init, NothingHeldFirst, Held, NoState
<1>3. CapturedHeld /\ DraftsHeld /\ FilesHeld /\ NamesOwned
  BY DEF Init, CapturedHeld, DraftsHeld, FilesHeld, NamesOwned, Owned, Empty
<1> QED
  BY <1>1, <1>2, <1>3 DEF IInv

-----------------------------------------------------------------------------
(* Steps of memory: the history of what it has held grows *)

\* What has been held stays held.
LEMMA HeldStays ==
  ASSUME HeldGrows, NEW p \in Providers
  PROVE  /\ \A state : Held(p, state) => Held(p, state)'
         /\ \A save : save.provider = p /\ Captured(save) => Captured(save)'
  BY DEF HeldGrows, Held, Captured

LEMMA MemoryStep ==
  ASSUME IInv, Typed', HeldGrows, UNCHANGED <<saves, disk>>
  PROVE  IInv'
<1> USE DEF IInv, disk
<1>1. \A s \in DOMAIN saves : saves[s].provider \in Providers
  BY SaveTypes
<1>2. NothingHeldFirst'
  BY HeldStays DEF NothingHeldFirst
<1>3. CapturedHeld' /\ DraftsHeld'
  <2> SUFFICES ASSUME NEW s \in DOMAIN saves
               PROVE  /\ saves[s].pc # "done" => Captured(saves[s])'
                      /\ saves[s].pc \notin {"start", "done"} =>
                           Held(saves[s].provider, saves[s].draft)'
    BY DEF CapturedHeld, DraftsHeld
  <2> QED
    BY <1>1, HeldGrows DEF HeldGrows, CapturedHeld, DraftsHeld, Held, Captured
<1>4. FilesHeld'
  BY <1>1 DEF HeldGrows, FilesHeld, Held
<1>5. NamesOwned'
  BY DEF NamesOwned, Owned
<1> QED
  BY <1>2, <1>3, <1>4, <1>5

\* A new hook has captured what memory holds now.
LEMMA SpawnStep ==
  ASSUME IInv, Typed', HeldGrows, UNCHANGED disk,
         NEW save \in HookRecords, saves' = Append(saves, save),
         save.pc = "start", save.fd = 0, Captured(save)'
  PROVE  IInv'
<1> USE DEF IInv, disk
<1>1. /\ DOMAIN saves' = DOMAIN saves \cup {Len(saves) + 1}
      /\ \A s \in DOMAIN saves : saves'[s] = saves[s] /\ s # Len(saves) + 1
      /\ saves'[Len(saves) + 1] = save
  BY AppendProperties DEF Typed
<1>2. \A s \in DOMAIN saves : saves[s].provider \in Providers
  BY SaveTypes
<1>3. NothingHeldFirst'
  BY HeldStays DEF NothingHeldFirst
<1>4. CapturedHeld'
  <2> SUFFICES ASSUME NEW s \in DOMAIN saves', saves'[s].pc # "done"
               PROVE  Captured(saves[s])'
    BY DEF CapturedHeld
  <2> QED
    BY <1>1, <1>2 DEF HeldGrows, CapturedHeld, Captured
<1>5. DraftsHeld'
  BY <1>1, <1>2 DEF HeldGrows, DraftsHeld, Held
<1>6. FilesHeld'
  BY <1>1, <1>2 DEF HeldGrows, FilesHeld, Held
<1>7. NamesOwned'
  BY <1>1 DEF NamesOwned, Owned
<1> QED
  BY <1>3, <1>4, <1>5, <1>6, <1>7

LEMMA ChargeTypes ==
  ASSUME NEW p \in Providers, now \in Nat, windows[p] \in [DOMAIN Limits[p] -> Window]
  PROVE  ChargeAll(windows[p], Limits[p], now) \in [DOMAIN Limits[p] -> Window]
<1> SUFFICES ASSUME NEW i \in DOMAIN Limits[p]
             PROVE  Charge(windows[p][i], Limits[p][i], now) \in Window
  BY DEF ChargeAll
<1>1. windows[p][i] \in Window /\ Limits[p][i] \in LimitConfig
  BY LimitTypes
<1> QED
  BY <1>1 DEF Window, LimitConfig, NewWindow, LazyReset, Open, Charge

LEMMA RestoreTypes ==
  ASSUME NEW p \in Providers, NEW saved \in Seq(Window)
  PROVE  RestoredWindows(p, saved) \in [DOMAIN Limits[p] -> Window]
<1>1. \A i \in DOMAIN saved : saved[i] \in Window
  BY ElementOfSeq
<1> QED
  BY <1>1 DEF RestoredWindows, Restore, NewWindow, Window

LEMMA RoutingSaveType ==
  ASSUME NEW p \in Providers, NEW bu \in Nat, NEW eu \in Nat
  PROVE  RoutingSave(p, bu, eu) \in HookRecords
  BY StateTypes, BoundsAssumption DEF RoutingSave, HookRecords, Steps

LEMMA WindowsSaveType ==
  ASSUME NEW p \in Providers, NEW ws \in Seq(Window)
  PROVE  WindowsSave(p, ws) \in HookRecords
  BY RoutingSaveType, StateTypes, BoundsAssumption
     DEF WindowsSave, RoutingSave, HookRecords, Steps

\* Appending a hook that has not started keeps the sequence of hooks one.
LEMMA SpawnTypes ==
  ASSUME Typed, NEW save \in HookRecords, save.pc = "start",
         Len(saves) < MaxSaves, saves' = Append(saves, save)
  PROVE  /\ saves' \in Seq(HookRecords) /\ Len(saves') <= MaxSaves
         /\ \A s \in DOMAIN saves' :
              saves'[s].pc \in {"write", "rename"} => saves'[s].fd # 0
<1>1. saves' \in Seq(HookRecords) /\ Len(saves') = Len(saves) + 1
  BY AppendProperties DEF Typed
<1>2. /\ \A s \in 1..Len(saves) : saves'[s] = saves[s]
      /\ saves'[Len(saves) + 1] = save
  BY AppendProperties DEF Typed
<1>3. DOMAIN saves' = 1..(Len(saves) + 1)
  BY <1>1
<1> QED
  BY <1>1, <1>2, <1>3, SaveTypes, BoundsAssumption DEF Typed

LEMMA BlockIInv ==
  ASSUME IInv, NEW p \in Providers, NEW d \in BlockFor, Block(p, d)
  PROVE  IInv'
<1>1. now + d \in Nat /\ exhausted[p] \in Nat
  BY BoundsAssumption DEF IInv, Typed
<1>2. PICK save \in HookRecords : save = RoutingSave(p, now + d, exhausted[p])
  BY <1>1, RoutingSaveType
<1>3. save.pc = "start" /\ save.fd = 0 /\ saves' = Append(saves, save)
  BY <1>2 DEF Block, Spawn, RoutingSave
<1>4. Typed'
  BY <1>1, <1>2, <1>3, SpawnTypes DEF IInv, Typed, Block, Remember, disk
<1>5. HeldGrows
  BY DEF IInv, Typed, Block, Remember, HeldGrows
<1>6. Captured(save)'
  BY <1>1, <1>2 DEF IInv, Typed, Block, Remember, Captured, RoutingSave
<1>7. UNCHANGED disk
  BY DEF Block
<1> QED
  BY <1>2, <1>3, <1>4, <1>5, <1>6, <1>7, SpawnStep

LEMMA SetExhaustedIInv ==
  ASSUME IInv, NEW p \in Providers, NEW resetAt \in Nat, SetExhausted(p, resetAt)
  PROVE  IInv'
<1>1. blocked[p] \in Nat
  BY DEF IInv, Typed
<1>2. PICK save \in HookRecords : save = RoutingSave(p, blocked[p], resetAt)
  BY <1>1, RoutingSaveType
<1>3. save.pc = "start" /\ save.fd = 0 /\ saves' = Append(saves, save)
  BY <1>2 DEF SetExhausted, Spawn, RoutingSave
<1>4. Typed'
  BY <1>2, <1>3, SpawnTypes DEF IInv, Typed, SetExhausted, Remember, disk
<1>5. HeldGrows
  BY DEF IInv, Typed, SetExhausted, Remember, HeldGrows
<1>6. Captured(save)'
  BY <1>2 DEF IInv, Typed, SetExhausted, Remember, Captured, RoutingSave
<1>7. UNCHANGED disk
  BY DEF SetExhausted
<1> QED
  BY <1>2, <1>3, <1>4, <1>5, <1>6, <1>7, SpawnStep

LEMMA RecordIInv ==
  ASSUME IInv, NEW p \in Providers, Record(p)
  PROVE  IInv'
<1> DEFINE ws == ChargeAll(windows[p], Limits[p], now)
<1>1. ws \in [DOMAIN Limits[p] -> Window]
  BY ChargeTypes DEF IInv, Typed
<1>2. ws \in Seq(Window)
  BY <1>1, LimitTypes
<1>3. windows' = [windows EXCEPT ![p] = ws] /\ Remember(p)
  BY DEF Record
<1>4. /\ windows' \in [Providers -> Seq(Window)]
      /\ \A q \in Providers : windows'[q] \in [DOMAIN Limits[q] -> Window]
  <2> HIDE DEF ws
  <2> QED
    BY <1>1, <1>2, <1>3 DEF IInv, Typed
<1>5. HeldGrows /\ ws \in held'[p].windows
  <2> HIDE DEF ws
  <2> QED
    BY <1>3 DEF IInv, Typed, Remember, HeldGrows
<1>6. UNCHANGED <<now, up, blocked, exhausted, hooked, disk>>
  BY DEF Record
<1>7. CASE hooked /\ Spawn(WindowsSave(p, ws))
  <2> HIDE DEF ws
  <2>1. PICK save \in HookRecords : save = WindowsSave(p, ws)
    BY <1>2, WindowsSaveType
  <2>2. saves' = Append(saves, save) /\ Len(saves) < MaxSaves
    BY <1>7, <2>1 DEF Spawn, Record
  <2>3. Captured(save)' /\ save.pc = "start" /\ save.fd = 0
    BY <1>5, <2>1 DEF Captured, WindowsSave, RoutingSave
  <2>4. Typed'
    BY <1>4, <1>5, <1>6, <2>2, <2>3, SpawnTypes DEF IInv, Typed, HeldGrows, disk
  <2> QED
    BY <1>5, <1>6, <2>2, <2>3, <2>4, SpawnStep
<1>8. CASE UNCHANGED saves
  <2>1. Typed'
    BY <1>4, <1>5, <1>6, <1>8 DEF IInv, Typed, HeldGrows, disk
  <2> QED
    BY <1>5, <1>6, <1>8, <2>1, MemoryStep
<1> QED
  BY <1>7, <1>8 DEF Record

LEMMA ReloadIInv == IInv /\ Reload => IInv'
<1> SUFFICES ASSUME IInv, Reload PROVE IInv'
  OBVIOUS
<1>1. Typed'
  BY EnsureTypes, LimitTypes DEF IInv, Typed, Reload, disk
<1>2. HeldGrows
  BY DEF IInv, Typed, Reload, HeldGrows
<1> QED
  BY <1>1, <1>2, MemoryStep DEF Reload

LEMMA TickIInv == IInv /\ Tick => IInv'
<1> SUFFICES ASSUME IInv, Tick PROVE IInv'
  OBVIOUS
<1>1. Typed' /\ HeldGrows
  BY DEF IInv, Typed, Tick, HeldGrows, memory, disk
<1> QED
  BY <1>1, MemoryStep DEF Tick

LEMMA RestartIInv == IInv /\ Restart => IInv'
<1> SUFFICES ASSUME IInv, Restart PROVE IInv'
  OBVIOUS
<1>1. \A p \in Providers : Saved(p) \in States
  BY StateTypes DEF IInv, Typed, Contents, Saved, Loaded
<1>2. \A p \in Providers :
        /\ Ahead(Saved(p).blocked) \in Nat /\ Ahead(Saved(p).exhausted) \in Nat
        /\ Saved(p).windows \in Seq(Window)
  BY <1>1 DEF States, Ahead
<1>3. \A p \in Providers :
        /\ RestoredWindows(p, Saved(p).windows) \in [DOMAIN Limits[p] -> Window]
        /\ RestoredWindows(p, Saved(p).windows) \in Seq(Window)
  BY <1>2, RestoreTypes, LimitTypes
<1>4. Typed'
  BY <1>2, <1>3 DEF IInv, Typed, Restart, disk
<1>5. HeldGrows
  BY DEF IInv, Typed, Restart, HeldGrows
<1> QED
  BY <1>4, <1>5, MemoryStep DEF Restart

-----------------------------------------------------------------------------
(* Steps of hooks: memory stays as it is *)

\* One hook moves; the others, and what memory has held, stay.
Moves(s) ==
  /\ DOMAIN saves' = DOMAIN saves
  /\ \A o \in DOMAIN saves \ {s} : saves'[o] = saves[o]
  /\ saves'[s].provider = saves[s].provider
  /\ held' = held

LEMMA HookStep ==
  ASSUME IInv, Typed', NEW s \in DOMAIN saves, Moves(s),
         saves'[s].pc # "done" => Captured(saves'[s]),
         saves'[s].pc \notin {"start", "done"} => Held(saves[s].provider, saves'[s].draft),
         Owned(saves'[s].fd, saves[s].provider),
         \A p \in Providers : Owned(path'[p], p) /\ Owned(tmp'[p], p),
         \A i \in 1..MaxSaves : content'[i].text = "whole" =>
           i \in DOMAIN saves /\ Held(saves[i].provider, content'[i].state)
  PROVE  IInv'
<1> USE DEF IInv, Moves
<1>1. \A o \in DOMAIN saves : saves'[o].provider = saves[o].provider
  OBVIOUS
<1>2. NothingHeldFirst'
  BY DEF NothingHeldFirst, Held
<1>3. CapturedHeld'
  BY <1>1 DEF CapturedHeld, Captured
<1>4. DraftsHeld'
  BY <1>1 DEF DraftsHeld, Held
<1>5. FilesHeld'
  BY <1>1 DEF FilesHeld, Held
<1>6. NamesOwned'
  BY <1>1 DEF NamesOwned, Owned
<1> QED
  BY <1>2, <1>3, <1>4, <1>5, <1>6

\* Replacing one hook by another keeps the sequence of hooks one.
LEMMA ReplaceTypes ==
  ASSUME Typed, NEW s \in DOMAIN saves, NEW save \in HookRecords,
         save.pc \in {"write", "rename"} => save.fd # 0,
         saves' = [saves EXCEPT ![s] = save]
  PROVE  /\ saves' \in Seq(HookRecords) /\ Len(saves') <= MaxSaves
         /\ DOMAIN saves' = DOMAIN saves
         /\ saves'[s] = save
         /\ \A o \in DOMAIN saves \ {s} : saves'[o] = saves[o]
         /\ \A o \in DOMAIN saves' :
              saves'[o].pc \in {"write", "rename"} => saves'[o].fd # 0
<1>1. /\ saves \in [1..Len(saves) -> HookRecords] /\ Len(saves) \in Nat
      /\ DOMAIN saves = 1..Len(saves)
  BY SaveTypes DEF Typed
<1>2. saves' \in [1..Len(saves) -> HookRecords]
  BY <1>1
<1>3. saves' \in Seq(HookRecords) /\ Len(saves') = Len(saves)
  BY <1>1, <1>2
<1> QED
  BY <1>1, <1>2, <1>3 DEF Typed

LEMMA SweptFacts ==
  ASSUME Typed, content' = Swept
  PROVE  /\ content' \in [1..MaxSaves -> Contents]
         /\ \A i \in 1..MaxSaves : content'[i].text = "whole" => content'[i] = content[i]
  BY StateTypes DEF Typed, Swept, Empty

LEMMA LoadFileIInv ==
  ASSUME IInv, NEW s \in DOMAIN saves, LoadFile(s)
  PROVE  IInv'
<1> DEFINE p == saves[s].provider
<1>1. p \in Providers /\ saves[s] \in HookRecords
  BY SaveTypes DEF IInv
<1>2. Loaded(p) \in States /\ Held(p, Loaded(p))
  <2>1. CASE path[p] # 0 /\ Parses(p)
    <3>1. path[p] \in 1..MaxSaves /\ saves[path[p]].provider = p
      BY <1>1, <2>1 DEF IInv, Typed, NamesOwned, Owned
    <3>2. Loaded(p) = content[path[p]].state /\ content[path[p]].text = "whole"
      BY <2>1 DEF Loaded, Parses
    <3>3. content[path[p]].state \in States
      BY <3>1 DEF IInv, Typed, Contents
    <3> QED
      BY <3>1, <3>2, <3>3 DEF IInv, FilesHeld
  <2>2. CASE ~(path[p] # 0 /\ Parses(p))
    BY <1>1, <2>2, StateTypes DEF IInv, NothingHeldFirst, Loaded
  <2> QED
    BY <2>1, <2>2
<1>3. Captured(saves[s]) /\ saves[s].pc = "start"
  BY DEF LoadFile, At, IInv, CapturedHeld
<1>4. PICK draft \in States : draft = Merged(saves[s], Loaded(p)) /\ Held(p, draft)
  <2>1. Merged(saves[s], Loaded(p)) \in States
    BY <1>1, <1>2 DEF Merged, HookRecords, States
  <2>2. Held(p, Merged(saves[s], Loaded(p)))
    BY <1>1, <1>2, <1>3 DEF Merged, HookRecords, States, Held, Captured
  <2> QED
    BY <2>1, <2>2
<1>5. PICK save \in HookRecords :
        /\ save = [saves[s] EXCEPT !.pc = "open", !.draft = draft]
        /\ saves' = [saves EXCEPT ![s] = save]
  BY <1>1, <1>4 DEF LoadFile, HookRecords, Steps
<1>6. /\ save.pc = "open" /\ save.draft = draft /\ save.fd = saves[s].fd
      /\ save.provider = p /\ Captured(save)
  BY <1>1, <1>3, <1>5 DEF HookRecords, Captured
<1>7. UNCHANGED <<now, up, memory, hooked, disk, held>>
  BY DEF LoadFile
<1>8. Typed'
  BY <1>5, <1>6, <1>7, ReplaceTypes DEF IInv, Typed, memory, disk
<1>9. Moves(s) /\ saves'[s] = save
  BY <1>5, <1>6, <1>7, ReplaceTypes DEF IInv, Moves
<1> QED
  BY <1>4, <1>6, <1>7, <1>8, <1>9, HookStep DEF IInv, NamesOwned, FilesHeld, disk

LEMMA OpenTmpIInv ==
  ASSUME IInv, NEW s \in DOMAIN saves, OpenTmp(s)
  PROVE  IInv'
<1> DEFINE p == saves[s].provider
<1>1. p \in Providers /\ saves[s] \in HookRecords
  BY SaveTypes DEF IInv
<1>2. PICK inode \in 1..MaxSaves :
        /\ inode = IF tmp[p] = 0 THEN s ELSE tmp[p]
        /\ Owned(inode, p)
  <2>1. s \in 1..MaxSaves
    BY SaveTypes, BoundsAssumption DEF IInv
  <2>2. tmp[p] \in 0..MaxSaves /\ Owned(tmp[p], p)
    BY <1>1 DEF IInv, Typed, NamesOwned
  <2> QED
    BY <2>1, <2>2, BoundsAssumption DEF Owned
<1>3. /\ tmp' = [tmp EXCEPT ![p] = inode]
      /\ content' = [content EXCEPT ![inode] = Empty]
      /\ saves' = [saves EXCEPT ![s].pc = "write", ![s].fd = inode]
      /\ UNCHANGED <<now, up, memory, hooked, path, history>>
  BY <1>2 DEF OpenTmp
<1>4. PICK save \in HookRecords :
        /\ save = [saves[s] EXCEPT !.pc = "write", !.fd = inode]
        /\ saves' = [saves EXCEPT ![s] = save]
  <2>1. inode \in 0..MaxSaves
    BY BoundsAssumption
  <2>2. PICK save \in HookRecords : save = [saves[s] EXCEPT !.pc = "write", !.fd = inode]
    BY <1>1, <2>1 DEF HookRecords, Steps
  <2>3. saves' = [saves EXCEPT ![s] = [saves[s] EXCEPT !.pc = "write", !.fd = inode]]
    BY <1>3
  <2> QED
    BY <2>2, <2>3
<1>5. /\ save.pc = "write" /\ save.draft = saves[s].draft /\ save.fd = inode
      /\ save.provider = p /\ save.fd # 0
      /\ Captured(saves[s]) => Captured(save)
  BY <1>1, <1>4 DEF HookRecords, Captured
<1>6. saves[s].pc = "open" /\ Captured(saves[s]) /\ Held(p, saves[s].draft)
  BY DEF OpenTmp, At, IInv, CapturedHeld, DraftsHeld
<1>7. Typed'
  <2>1. content' \in [1..MaxSaves -> Contents]
    BY <1>3, StateTypes DEF IInv, Typed
  <2>2. tmp' \in [Providers -> 0..MaxSaves]
    <3>1. inode \in 0..MaxSaves
      BY BoundsAssumption
    <3> QED
      BY <1>3, <3>1 DEF IInv, Typed
  <2>3. /\ saves' \in Seq(HookRecords) /\ Len(saves') <= MaxSaves
        /\ \A o \in DOMAIN saves' :
             saves'[o].pc \in {"write", "rename"} => saves'[o].fd # 0
    BY <1>4, <1>5, ReplaceTypes DEF IInv
  <2> QED
    BY <1>3, <2>1, <2>2, <2>3 DEF IInv, Typed, memory, history
<1>8. Moves(s) /\ saves'[s] = save
  BY <1>3, <1>4, <1>5, ReplaceTypes DEF IInv, Moves, history
<1>9. \A i \in 1..MaxSaves : content'[i].text = "whole" =>
        i \in DOMAIN saves /\ Held(saves[i].provider, content'[i].state)
  BY <1>3 DEF IInv, Typed, FilesHeld, Empty
<1>10. \A q \in Providers : Owned(path'[q], q) /\ Owned(tmp'[q], q)
  BY <1>2, <1>3 DEF IInv, Typed, NamesOwned
<1> QED
  BY <1>2, <1>5, <1>6, <1>7, <1>8, <1>9, <1>10, HookStep

LEMMA WriteTmpIInv ==
  ASSUME IInv, NEW s \in DOMAIN saves, WriteTmp(s)
  PROVE  IInv'
<1> DEFINE p == saves[s].provider
<1>1. p \in Providers /\ saves[s] \in HookRecords
  BY SaveTypes DEF IInv
<1>2. saves[s].pc = "write" /\ Captured(saves[s]) /\ Held(p, saves[s].draft)
  BY DEF WriteTmp, At, IInv, CapturedHeld, DraftsHeld
<1>3. PICK inode \in 1..MaxSaves : inode = saves[s].fd /\ Owned(inode, p)
  BY <1>1, <1>2, BoundsAssumption DEF HookRecords, IInv, Typed, NamesOwned
<1>4. PICK c \in Contents :
        /\ content' = [content EXCEPT ![inode] = c]
        /\ c.text = "whole" => c.state = saves[s].draft
  <2>1. /\ Whole(saves[s].draft) \in Contents /\ Torn \in Contents
        /\ Whole(saves[s].draft).state = saves[s].draft /\ Torn.text # "whole"
    BY <1>1, StateTypes DEF Whole, Torn, Contents, HookRecords
  <2>2. \E c \in {Whole(saves[s].draft), Torn} : content' = [content EXCEPT ![inode] = c]
    BY <1>3 DEF WriteTmp, AfterWrite
  <2> QED
    BY <2>1, <2>2
<1>5. saves' = [saves EXCEPT ![s].pc = "rename"]
      /\ UNCHANGED <<now, up, memory, hooked, path, tmp, history>>
  BY DEF WriteTmp, Goto
<1>6. PICK save \in HookRecords :
        /\ save = [saves[s] EXCEPT !.pc = "rename"]
        /\ saves' = [saves EXCEPT ![s] = save]
  BY <1>1, <1>5 DEF HookRecords, Steps
<1>7. /\ save.pc = "rename" /\ save.draft = saves[s].draft /\ save.fd = inode
      /\ save.provider = p /\ save.fd # 0
      /\ Captured(saves[s]) => Captured(save)
  BY <1>1, <1>3, <1>6 DEF HookRecords, Captured
<1>8. Typed'
  BY <1>4, <1>5, <1>6, <1>7, ReplaceTypes DEF IInv, Typed, memory, history
<1>9. Moves(s) /\ saves'[s] = save
  BY <1>5, <1>6, <1>7, ReplaceTypes DEF IInv, Moves, history
<1>10. \A i \in 1..MaxSaves : content'[i].text = "whole" =>
        i \in DOMAIN saves /\ Held(saves[i].provider, content'[i].state)
  BY <1>2, <1>3, <1>4 DEF IInv, Typed, FilesHeld, Owned
<1> QED
  BY <1>2, <1>3, <1>5, <1>7, <1>8, <1>9, <1>10, HookStep DEF IInv, NamesOwned

\* What is left of a hook that has ended.
LEMMA EndedType ==
  ASSUME Typed, NEW s \in DOMAIN saves
  PROVE  /\ Ended(s) \in HookRecords
         /\ Ended(s).pc = "done" /\ Ended(s).fd = 0
         /\ Ended(s).provider = saves[s].provider
<1>1. PICK fresh \in HookRecords : fresh = RoutingSave(saves[s].provider, 0, 0)
  BY SaveTypes, RoutingSaveType
<1>2. Ended(s) = [fresh EXCEPT !.pc = "done"]
  BY <1>1 DEF Ended
<1>3. fresh.fd = 0 /\ fresh.provider = saves[s].provider
  BY <1>1 DEF RoutingSave
<1> QED
  BY <1>2, <1>3 DEF HookRecords, Steps

LEMMA RenameTmpIInv ==
  ASSUME IInv, NEW s \in DOMAIN saves, RenameTmp(s)
  PROVE  IInv'
<1> DEFINE p == saves[s].provider
<1>1. p \in Providers /\ saves[s] \in HookRecords
  BY SaveTypes DEF IInv
<1>2. saves[s].pc = "rename" /\ Captured(saves[s]) /\ Held(p, saves[s].draft)
  BY DEF RenameTmp, At, IInv, CapturedHeld, DraftsHeld
<1>3. UNCHANGED <<now, up, memory, hooked, history>> /\ content' = Swept
  BY DEF RenameTmp
<1>4. /\ path' \in [Providers -> 0..MaxSaves] /\ tmp' \in [Providers -> 0..MaxSaves]
      /\ \A q \in Providers : Owned(path'[q], q) /\ Owned(tmp'[q], q)
  <2>1. CASE path' = [path EXCEPT ![p] = tmp[p]] /\ tmp' = [tmp EXCEPT ![p] = 0]
    BY <1>1, <2>1, BoundsAssumption DEF IInv, Typed, NamesOwned, Owned
  <2>2. CASE UNCHANGED <<path, tmp>>
    BY <2>2 DEF IInv, Typed, NamesOwned
  <2> QED
    BY <2>1, <2>2 DEF RenameTmp
<1>5. \A i \in 1..MaxSaves : content'[i].text = "whole" =>
        i \in DOMAIN saves /\ Held(saves[i].provider, content'[i].state)
  BY <1>3, SweptFacts DEF IInv, FilesHeld
<1>6. PICK save \in HookRecords :
        /\ saves' = [saves EXCEPT ![s] = save]
        /\ save.provider = p
        /\ \/ save.pc = "done" /\ save.fd = 0
           \/ /\ save.pc = "remove" /\ save.fd = saves[s].fd
              /\ save.draft = saves[s].draft /\ Captured(save)
  <2>1. CASE saves' = [saves EXCEPT ![s] = Ended(s)]
    BY <2>1, EndedType DEF IInv
  <2>2. CASE Goto(s, "remove")
    <3>1. PICK save \in HookRecords : save = [saves[s] EXCEPT !.pc = "remove"]
      BY <1>1 DEF HookRecords, Steps
    <3>2. saves' = [saves EXCEPT ![s] = save]
      BY <2>2, <3>1 DEF Goto
    <3>3. /\ save.pc = "remove" /\ save.fd = saves[s].fd /\ save.provider = p
          /\ save.draft = saves[s].draft /\ Captured(save)
      BY <1>1, <1>2, <3>1 DEF HookRecords, Captured
    <3> QED
      BY <3>2, <3>3
  <2> QED
    BY <2>1, <2>2 DEF RenameTmp
<1>7. Typed'
  BY <1>3, <1>4, <1>6, ReplaceTypes, SweptFacts DEF IInv, Typed, memory, history
<1>8. Moves(s) /\ saves'[s] = save
  BY <1>3, <1>6, ReplaceTypes DEF IInv, Moves, history
<1>9. Owned(save.fd, p)
  BY <1>6 DEF IInv, NamesOwned, Owned
<1> QED
  BY <1>2, <1>4, <1>5, <1>6, <1>7, <1>8, <1>9, HookStep

LEMMA RemoveTmpIInv ==
  ASSUME IInv, NEW s \in DOMAIN saves, RemoveTmp(s)
  PROVE  IInv'
<1> DEFINE p == saves[s].provider
<1>1. p \in Providers
  BY SaveTypes DEF IInv
<1>2. /\ UNCHANGED <<now, up, memory, hooked, path, history>>
      /\ content' = Swept /\ tmp' = [tmp EXCEPT ![p] = 0]
  BY DEF RemoveTmp
<1>3. PICK save \in HookRecords :
        /\ saves' = [saves EXCEPT ![s] = save]
        /\ save.provider = p /\ save.pc = "done" /\ save.fd = 0
  BY EndedType DEF RemoveTmp, IInv
<1>4. Typed'
  <2>1. content' \in [1..MaxSaves -> Contents]
    BY <1>2, SweptFacts DEF IInv
  <2>2. tmp' \in [Providers -> 0..MaxSaves]
    <3>1. 0 \in 0..MaxSaves
      BY BoundsAssumption
    <3> QED
      BY <1>2, <3>1 DEF IInv, Typed
  <2>3. /\ saves' \in Seq(HookRecords) /\ Len(saves') <= MaxSaves
        /\ \A o \in DOMAIN saves' :
             saves'[o].pc \in {"write", "rename"} => saves'[o].fd # 0
    BY <1>3, ReplaceTypes DEF IInv
  <2> QED
    BY <1>2, <2>1, <2>2, <2>3 DEF IInv, Typed, memory, history
<1>5. Moves(s) /\ saves'[s] = save
  BY <1>2, <1>3, ReplaceTypes DEF IInv, Moves, history
<1>6. \A i \in 1..MaxSaves : content'[i].text = "whole" =>
        i \in DOMAIN saves /\ Held(saves[i].provider, content'[i].state)
  BY <1>2, SweptFacts DEF IInv, FilesHeld
<1>7. \A q \in Providers : Owned(path'[q], q) /\ Owned(tmp'[q], q)
  BY <1>2 DEF IInv, Typed, NamesOwned, Owned
<1>8. Owned(save.fd, p)
  BY <1>3 DEF Owned
<1> QED
  BY <1>3, <1>4, <1>5, <1>6, <1>7, <1>8, HookStep

LEMMA CrashIInv == IInv /\ Crash => IInv'
<1> SUFFICES ASSUME IInv, Crash PROVE IInv'
  OBVIOUS
<1>1. /\ UNCHANGED <<now, memory, hooked, held, path, tmp>> /\ up' = FALSE
      /\ saves' = [s \in DOMAIN saves |-> Ended(s)] /\ content' = Swept
  BY DEF Crash
<1>2. /\ DOMAIN saves' = DOMAIN saves
      /\ \A s \in DOMAIN saves :
          /\ saves'[s] \in HookRecords
          /\ saves'[s].pc = "done" /\ saves'[s].fd = 0
          /\ saves'[s].provider = saves[s].provider
  BY <1>1, EndedType DEF IInv
<1>3. saves' \in Seq(HookRecords) /\ Len(saves') = Len(saves)
  <2>1. DOMAIN saves = 1..Len(saves) /\ Len(saves) \in Nat
    BY SaveTypes DEF IInv
  <2>2. saves' \in [1..Len(saves) -> HookRecords]
    BY <1>1, <1>2, <2>1
  <2> QED
    BY <2>1, <2>2
<1>4. Typed'
  BY <1>1, <1>2, <1>3, SweptFacts DEF IInv, Typed, memory
<1>5. NothingHeldFirst' /\ CapturedHeld' /\ DraftsHeld'
  BY <1>1, <1>2 DEF IInv, NothingHeldFirst, Held, CapturedHeld, DraftsHeld
<1>6. FilesHeld'
  BY <1>1, <1>2, SweptFacts DEF IInv, FilesHeld, Held
<1>7. NamesOwned'
  <2>1. \A p \in Providers : Owned(path[p], p)' /\ Owned(tmp[p], p)'
    BY <1>1, <1>2 DEF IInv, NamesOwned, Owned
  <2>2. \A s \in DOMAIN saves : Owned(saves[s].fd, saves[s].provider)'
    BY <1>2 DEF Owned
  <2> QED
    BY <1>2, <2>1, <2>2 DEF NamesOwned
<1> QED
  BY <1>4, <1>5, <1>6, <1>7 DEF IInv

-----------------------------------------------------------------------------

LEMMA NextIInv == IInv /\ [Next]_vars => IInv'
<1> SUFFICES ASSUME IInv, [Next]_vars PROVE IInv'
  OBVIOUS
<1>1. CASE Crash \/ Restart \/ Reload \/ Tick
  BY <1>1, CrashIInv, RestartIInv, ReloadIInv, TickIInv
<1>2. CASE \E p \in Providers : \E d \in BlockFor : Block(p, d)
  BY <1>2, BlockIInv
<1>3. ASSUME NEW p \in Providers, NEW i \in DOMAIN Limits[p],
             SetExhausted(p, now + Limits[p][i].window)
      PROVE  IInv'
  <2>1. now + Limits[p][i].window \in Nat
    BY ResetTimes DEF IInv
  <2> QED
    BY <1>3, <2>1, SetExhaustedIInv
<1>4. CASE \E p \in Providers : Record(p)
  BY <1>4, RecordIInv
<1>5. CASE \E s \in DOMAIN saves : Hook(s)
  BY <1>5, LoadFileIInv, OpenTmpIInv, WriteTmpIInv, RenameTmpIInv, RemoveTmpIInv
     DEF Hook
<1>6. CASE UNCHANGED vars
  <2>1. Typed' /\ HeldGrows /\ UNCHANGED <<saves, disk>>
    BY <1>6 DEF vars, memory, disk, history, IInv, Typed, HeldGrows
  <2> QED
    BY <2>1, MemoryStep
<1> QED
  BY <1>1, <1>2, <1>3, <1>4, <1>5, <1>6 DEF Next

THEOREM InvariantHolds == Spec => []IInv
<1> QED
  BY InitIInv, NextIInv, PTL DEF Spec

\* The state of the hooks, of the files and of memory is well formed, whatever
\* the providers, limits and bounds (persistence.go:90-173).
THEOREM TypeCorrect == Spec => []TypeOK
<1> QED
  BY InvariantHolds, InvariantSuffices, PTL

\* Whatever the hooks do to one another and whenever the process ends, a file
\* that can be read holds two times that memory has held at one moment, and
\* windows that it has held at one moment (persistence.go:90-173).
THEOREM FilesTellTheTruth == Spec => []NothingInvented
<1> QED
  BY InvariantHolds, InvariantSuffices, PTL

-----------------------------------------------------------------------------
(* What the files of a provider keep while its hooks do not disturb one     *)
(* another.                                                                 *)

\* The hooks that have begun.
Busy(p) == {s \in OfProvider(p) : saves[s].pc # "start"}

\* What a hook that nothing disturbs has in the files.
Alone(p, s) ==
  /\ \A o \in Busy(p) : o = s
  /\ \A o \in OfProvider(p) : saves[o].kind = saves[s].kind => s <= o
  /\ saves[s].pc # "remove"
  /\ saves[s].draft = Merged(saves[s], Loaded(p))
  /\ saves[s].pc \in {"write", "rename"} => tmp[p] = saves[s].fd
  /\ saves[s].pc = "write" => content[saves[s].fd] = Empty
  /\ saves[s].pc = "rename" => content[saves[s].fd] = Whole(saves[s].draft)

FilesTidy(p) == Parses(p) /\ \A s \in Busy(p) : Alone(p, s)

IsLast(s, S) == s \in S /\ \A o \in S : o <= s

\* The file, once the pending hooks have ended, says what memory says.
RoutingKept(p) ==
  /\ Pending(p, "routing") = {} =>
       /\ Ahead(Loaded(p).blocked) = Ahead(blocked[p])
       /\ Ahead(Loaded(p).exhausted) = Ahead(exhausted[p])
  /\ \A s \in DOMAIN saves : IsLast(s, Pending(p, "routing")) =>
       saves[s].blocked = blocked[p] /\ saves[s].exhausted = exhausted[p]

WindowsKept(p) ==
  /\ Pending(p, "windows") = {} =>
       \A i \in DOMAIN Limits[p] :
         RestoredWindows(p, Loaded(p).windows)[i] = AheadOf(windows[p][i])
  /\ \A s \in DOMAIN saves : IsLast(s, Pending(p, "windows")) => saves[s].windows = windows[p]

\* What was let through of a window that ends at t, what a list of windows has
\* counted of it, and how much more than that the crashes and reloads allow.
Granted(p, i, t) == IF t \in DOMAIN granted[p][i] THEN granted[p][i][t] ELSE 0
CountAt(ws, i, t) == IF i \in DOMAIN ws /\ ws[i].resetAt = t THEN ws[i].count ELSE 0
Allowance(p, i) == Limits[p][i].requests * reloads + lost[p]

\* What a tracker without a save hook may still let through.
Still(p, i, t) ==
  LET counted == CountAt(windows[p], i, t)
      requests == Limits[p][i].requests
  IN  IF up /\ ~hooked /\ counted < requests THEN requests - counted ELSE 0

Later(p, s) == {o \in Pending(p, "windows") : s < o}

\* A window has a length (a limit of 0s is accepted, and limits nothing).
PositiveWindows == \A p \in Providers : \A i \in DOMAIN Limits[p] : Limits[p][i].window > 0

\* Every count of a window bounds what was let through: that of memory, that of
\* the file with what the pending hooks will add, and that of every pending hook
\* with what the later ones will add.
GrantedBound(p, i, t) == Granted(p, i, t) <= Limits[p][i].requests + Allowance(p, i)

MemoryQuota(p, i, t) ==
  up /\ (now < t \/ (now = t /\ windows[p][i].resetAt = t)) =>
    Granted(p, i, t) <= CountAt(windows[p], i, t) + Allowance(p, i)

FileQuota(p, i, t) ==
  now < t =>
    Granted(p, i, t) + Still(p, i, t)
      <= CountAt(Loaded(p).windows, i, t) + Cardinality(Pending(p, "windows")) + Allowance(p, i)

HookQuota(p, i, t) ==
  now < t => \A s \in Pending(p, "windows") :
    Granted(p, i, t) + Still(p, i, t)
      <= CountAt(saves[s].windows, i, t) + Cardinality(Later(p, s)) + Allowance(p, i)

QuotaKept(p) ==
  \A i \in DOMAIN Limits[p] : \A t \in Nat :
    /\ GrantedBound(p, i, t) /\ MemoryQuota(p, i, t)
    /\ FileQuota(p, i, t) /\ HookQuota(p, i, t)

\* The temporary file is not the file, and a hook that has not opened one yet has
\* created no inode.
InodesApart ==
  /\ \A p \in Providers : tmp[p] # 0 => path[p] # tmp[p]
  /\ \A s \in DOMAIN saves : saves[s].pc \in {"start", "open"} =>
       \A p \in Providers : path[p] # s /\ tmp[p] # s

\* No hook outlives its process.
DownIdle ==
  /\ up => \A p \in Providers : ~unsaved[p]
  /\ ~up => \A p \in Providers : OfProvider(p) = {}

Kept(p) ==
  /\ FilesTidy(p)
  /\ ~unsaved[p] => RoutingKept(p)
  /\ up /\ hooked => WindowsKept(p)
  /\ PositiveWindows => QuotaKept(p)

KeptOK == \A p \in Providers : tidy[p] => Kept(p)

DiskIInv == now >= 1 /\ InodesApart /\ DownIdle /\ KeptOK

HistoryTyped ==
  /\ tidy \in [Providers -> BOOLEAN] /\ unsaved \in [Providers -> BOOLEAN]
  /\ lost \in [Providers -> Nat] /\ reloads \in Nat
  /\ DOMAIN granted = Providers
  /\ \A p \in Providers :
      /\ DOMAIN granted[p] = DOMAIN Limits[p]
      /\ \A i \in DOMAIN Limits[p] : \A t \in DOMAIN granted[p][i] :
           t \in Nat /\ granted[p][i][t] \in Nat

\* The inductive invariant of what is kept.
KeptIInv == IInv /\ HistoryTyped /\ DiskIInv

SameFields(a, b) ==
  /\ a.kind = b.kind /\ a.windows = b.windows
  /\ a.blocked = b.blocked /\ a.exhausted = b.exhausted

\* The pending hooks of a kind stay, and what they have captured.
SameOfKind(p, kind) ==
  /\ Pending(p, kind)' = Pending(p, kind)
  /\ \A s \in Pending(p, kind) : SameFields(saves'[s], saves[s])

SameHooks(p) ==
  /\ OfProvider(p)' = OfProvider(p)
  /\ \A s \in OfProvider(p) : saves'[s] = saves[s]

SameFiles(p) ==
  /\ Loaded(p)' = Loaded(p)
  /\ Parses(p) => Parses(p)'
  /\ tmp'[p] = tmp[p]
  /\ tmp[p] # 0 => content'[tmp[p]] = content[tmp[p]]

-----------------------------------------------------------------------------
(* Types *)

LEMMA PendingTypes ==
  ASSUME Typed, NEW p \in Providers, NEW kind
  PROVE  /\ Pending(p, kind) \subseteq OfProvider(p)
         /\ OfProvider(p) \subseteq DOMAIN saves /\ DOMAIN saves \subseteq Nat
         /\ IsFiniteSet(Pending(p, kind)) /\ Cardinality(Pending(p, kind)) \in Nat
         /\ \A s \in Nat : IsFiniteSet(Later(p, s)) /\ Cardinality(Later(p, s)) \in Nat
<1>1. DOMAIN saves = 1..Len(saves) /\ Len(saves) \in Nat
  BY SaveTypes
<1>2. Pending(p, kind) \subseteq OfProvider(p) /\ OfProvider(p) \subseteq DOMAIN saves
  BY DEF Pending, OfProvider
<1>3. \A S : S \subseteq DOMAIN saves => IsFiniteSet(S) /\ Cardinality(S) \in Nat
  <2> SUFFICES ASSUME NEW S, S \subseteq DOMAIN saves
               PROVE  IsFiniteSet(S) /\ Cardinality(S) \in Nat
    OBVIOUS
  <2>1. IsFiniteSet(DOMAIN saves)
    BY <1>1, FS_Interval
  <2>2. IsFiniteSet(S)
    BY <2>1, FS_Subset
  <2> QED
    BY <2>2, FS_CardinalityType
<1>4. \A s : Later(p, s) \subseteq DOMAIN saves
  BY DEF Later, Pending, OfProvider
<1> QED
  BY <1>1, <1>2, <1>3, <1>4

LEMMA LoadedType ==
  ASSUME Typed, NEW p \in Providers
  PROVE  Loaded(p) \in States
<1>1. path[p] # 0 => path[p] \in 1..MaxSaves
  BY BoundsAssumption DEF Typed
<1> QED
  BY <1>1, StateTypes DEF Typed, Loaded, Contents

LEMMA QuotaTypes ==
  ASSUME Typed, HistoryTyped, NEW p \in Providers, NEW i \in DOMAIN Limits[p], NEW t \in Nat
  PROVE  /\ Limits[p][i].requests \in Nat /\ Limits[p][i].window \in Nat
         /\ Allowance(p, i) \in Nat /\ Granted(p, i, t) \in Nat
         /\ \A ws \in Seq(Window) : CountAt(ws, i, t) \in Nat
         /\ windows[p] \in Seq(Window) /\ DOMAIN windows[p] = DOMAIN Limits[p]
         /\ windows[p][i] \in Window
         /\ Still(p, i, t) \in Nat
<1>1. Limits[p][i].requests \in Nat /\ Limits[p][i].window \in Nat
  BY LimitTypes DEF LimitConfig
<1>2. Limits[p][i].requests * reloads \in Nat
  BY <1>1 DEF HistoryTyped
<1>3. Allowance(p, i) \in Nat
  BY <1>2 DEF Allowance, HistoryTyped
<1>4. Granted(p, i, t) \in Nat
  BY DEF Granted, HistoryTyped
<1>5. \A ws \in Seq(Window) : CountAt(ws, i, t) \in Nat
  <2> SUFFICES ASSUME NEW ws \in Seq(Window) PROVE CountAt(ws, i, t) \in Nat
    OBVIOUS
  <2>1. i \in DOMAIN ws => ws[i] \in Window
    BY ElementOfSeq
  <2> QED
    BY <2>1 DEF CountAt, Window
<1>6. windows[p] \in Seq(Window) /\ windows[p] \in [DOMAIN Limits[p] -> Window]
  BY DEF Typed
<1>7. CountAt(windows[p], i, t) \in Nat
  BY <1>5, <1>6
<1>8. Still(p, i, t) \in Nat
  BY <1>1, <1>7 DEF Still
<1> QED
  BY <1>1, <1>3, <1>4, <1>5, <1>6, <1>8

-----------------------------------------------------------------------------
(* What memory and the clock do to what is kept, while the hooks stay *)

LEMMA SamePending ==
  ASSUME NEW p \in Providers, SameHooks(p), NEW kind
  PROVE  SameOfKind(p, kind)
  BY DEF SameHooks, SameOfKind, SameFields, Pending

LEMMA RoutingSteady ==
  ASSUME Typed, Typed', NEW p \in Providers, RoutingKept(p),
         SameOfKind(p, "routing"),
         Loaded(p)'.blocked = Loaded(p).blocked, Loaded(p)'.exhausted = Loaded(p).exhausted,
         blocked'[p] = blocked[p], exhausted'[p] = exhausted[p], now <= now'
  PROVE  RoutingKept(p)'
<1>1. ASSUME Pending(p, "routing")' = {}
      PROVE  /\ Ahead(Loaded(p).blocked)' = Ahead(blocked[p])'
             /\ Ahead(Loaded(p).exhausted)' = Ahead(exhausted[p])'
  <2>1. Loaded(p).blocked \in Nat /\ Loaded(p).exhausted \in Nat
    BY LoadedType DEF States
  <2>2. blocked[p] \in Nat /\ exhausted[p] \in Nat /\ now \in Nat /\ now' \in Nat
    BY DEF Typed
  <2>3. /\ Ahead(Loaded(p).blocked) = Ahead(blocked[p])
        /\ Ahead(Loaded(p).exhausted) = Ahead(exhausted[p])
    BY <1>1 DEF RoutingKept, SameOfKind
  <2> QED
    BY <2>1, <2>2, <2>3 DEF Ahead
<1>2. ASSUME NEW s \in DOMAIN saves', IsLast(s, Pending(p, "routing"))'
      PROVE  saves'[s].blocked = blocked'[p] /\ saves'[s].exhausted = exhausted'[p]
  <2>1. IsLast(s, Pending(p, "routing")) /\ SameFields(saves'[s], saves[s])
    BY <1>2 DEF IsLast, SameOfKind
  <2>2. s \in DOMAIN saves
    BY <2>1, PendingTypes DEF IsLast
  <2> QED
    BY <2>1, <2>2 DEF RoutingKept, SameFields
<1> QED
  BY <1>1, <1>2 DEF RoutingKept

LEMMA WindowsSteady ==
  ASSUME Typed, Typed', NEW p \in Providers, WindowsKept(p),
         SameOfKind(p, "windows"),
         Loaded(p)'.windows = Loaded(p).windows,
         windows'[p] = windows[p], now <= now'
  PROVE  WindowsKept(p)'
<1>1. ASSUME Pending(p, "windows")' = {}, NEW i \in DOMAIN Limits[p]
      PROVE  RestoredWindows(p, Loaded(p).windows)'[i] = AheadOf(windows[p][i])'
  <2> DEFINE saved == Loaded(p).windows
  <2>1. saved \in Seq(Window)
    BY LoadedType DEF States
  <2>2. windows[p][i] \in Window /\ now \in Nat /\ now' \in Nat
    BY DEF Typed
  <2>3. RestoredWindows(p, saved)[i] = AheadOf(windows[p][i])
    BY <1>1 DEF WindowsKept, SameOfKind
  <2>4. i \in DOMAIN saved => saved[i] \in Window
    BY <2>1, ElementOfSeq
  <2>5. Loaded(p)'.windows = saved
    OBVIOUS
  <2> QED
    BY <2>2, <2>3, <2>4, <2>5 DEF RestoredWindows, Restore, AheadOf, NewWindow, Window
<1>2. ASSUME NEW s \in DOMAIN saves', IsLast(s, Pending(p, "windows"))'
      PROVE  saves'[s].windows = windows'[p]
  <2>1. IsLast(s, Pending(p, "windows")) /\ SameFields(saves'[s], saves[s])
    BY <1>2 DEF IsLast, SameOfKind
  <2>2. s \in DOMAIN saves
    BY <2>1, PendingTypes DEF IsLast
  <2> QED
    BY <2>1, <2>2 DEF WindowsKept, SameFields
<1> QED
  BY <1>1, <1>2 DEF WindowsKept

LEMMA SameLater ==
  ASSUME NEW p \in Providers, SameOfKind(p, "windows")
  PROVE  /\ Pending(p, "windows")' = Pending(p, "windows")
         /\ \A s : Later(p, s)' = Later(p, s)
         /\ \A s \in Pending(p, "windows") : saves'[s].windows = saves[s].windows
  BY DEF SameOfKind, SameFields, Later

\* The time goes on, a history loses windows that have ended, and the rest of
\* what the quota is about stays.
LEMMA QuotaSteady ==
  ASSUME Typed, Typed', HistoryTyped, HistoryTyped', NEW p \in Providers, QuotaKept(p),
         SameOfKind(p, "windows"),
         Loaded(p)'.windows = Loaded(p).windows, windows'[p] = windows[p],
         up' = up, hooked' = hooked, reloads' = reloads, lost'[p] = lost[p],
         now <= now',
         \A i \in DOMAIN Limits[p] : \A t \in Nat : Granted(p, i, t)' <= Granted(p, i, t)
  PROVE  QuotaKept(p)'
<1> SUFFICES ASSUME NEW i \in DOMAIN Limits[p], NEW t \in Nat
             PROVE  /\ GrantedBound(p, i, t)' /\ MemoryQuota(p, i, t)'
                    /\ FileQuota(p, i, t)' /\ HookQuota(p, i, t)'
  BY DEF QuotaKept, GrantedBound, MemoryQuota, FileQuota, HookQuota
<1>1. Allowance(p, i)' = Allowance(p, i) /\ Still(p, i, t)' = Still(p, i, t)
  BY DEF Allowance, Still, CountAt
<1>2. /\ now \in Nat /\ now' \in Nat
      /\ Granted(p, i, t) \in Nat /\ Granted(p, i, t)' \in Nat /\ Allowance(p, i) \in Nat
      /\ Still(p, i, t) \in Nat /\ Limits[p][i].requests \in Nat
      /\ CountAt(windows[p], i, t) \in Nat /\ CountAt(Loaded(p).windows, i, t) \in Nat
      /\ Granted(p, i, t)' <= Granted(p, i, t)
  <2>1. Granted(p, i, t)' \in Nat
    BY DEF Granted, HistoryTyped
  <2>2. Loaded(p).windows \in Seq(Window)
    BY LoadedType DEF States
  <2>3. now \in Nat /\ now' \in Nat
    BY DEF Typed
  <2> QED
    BY <2>1, <2>2, <2>3, QuotaTypes
<1>3. Cardinality(Pending(p, "windows")) \in Nat
  BY PendingTypes
<1>4. Granted(p, i, t)' <= Limits[p][i].requests + Allowance(p, i)'
  BY <1>1, <1>2 DEF QuotaKept, GrantedBound, MemoryQuota, FileQuota, HookQuota
<1>5. up' /\ (now' < t \/ (now' = t /\ windows'[p][i].resetAt = t)) =>
         Granted(p, i, t)' <= CountAt(windows'[p], i, t) + Allowance(p, i)'
  BY <1>1, <1>2 DEF QuotaKept, GrantedBound, MemoryQuota, FileQuota, HookQuota
<1>6. ASSUME now' < t
      PROVE  Granted(p, i, t)' + Still(p, i, t)'
              <= CountAt(Loaded(p)'.windows, i, t) + Cardinality(Pending(p, "windows")') + Allowance(p, i)'
  BY <1>1, <1>2, <1>3, <1>6, SameLater DEF QuotaKept, GrantedBound, MemoryQuota, FileQuota, HookQuota
<1>7. ASSUME now' < t, NEW s \in Pending(p, "windows")'
      PROVE  Granted(p, i, t)' + Still(p, i, t)'
                <= CountAt(saves'[s].windows, i, t) + Cardinality(Later(p, s)') + Allowance(p, i)'
  <2>1. s \in Pending(p, "windows") /\ saves'[s].windows = saves[s].windows /\ Later(p, s)' = Later(p, s)
    BY <1>7, SameLater
  <2>2. s \in DOMAIN saves /\ s \in Nat
    BY <2>1, PendingTypes
  <2>3. saves[s].windows \in Seq(Window)
    BY <2>2, SaveTypes DEF HookRecords
  <2>4. CountAt(saves[s].windows, i, t) \in Nat /\ Cardinality(Later(p, s)) \in Nat
    BY <2>2, <2>3, QuotaTypes, PendingTypes
  <2>5. Granted(p, i, t) + Still(p, i, t)
          <= CountAt(saves[s].windows, i, t) + Cardinality(Later(p, s)) + Allowance(p, i)
    BY <1>2, <1>7, <2>1 DEF QuotaKept, GrantedBound, MemoryQuota, FileQuota, HookQuota
  <2> QED
    BY <1>1, <1>2, <2>1, <2>4, <2>5
<1> QED
  BY <1>4, <1>5, <1>6, <1>7
     DEF GrantedBound, MemoryQuota, FileQuota, HookQuota, CountAt

LEMMA TidySteady ==
  ASSUME Typed, NEW p \in Providers, FilesTidy(p), SameHooks(p), SameFiles(p)
  PROVE  FilesTidy(p)'
<1> SUFFICES ASSUME NEW s \in Busy(p)' PROVE Alone(p, s)'
  BY DEF FilesTidy, SameFiles
<1>1. Busy(p)' = Busy(p) /\ Busy(p) \subseteq OfProvider(p) /\ s \in Busy(p)
  BY DEF Busy, SameHooks
<1>2. Alone(p, s) /\ saves'[s] = saves[s] /\ s \in DOMAIN saves
  BY <1>1, PendingTypes DEF FilesTidy, SameHooks
<1>3. saves[s].pc \in {"write", "rename"} => content'[saves[s].fd] = content[saves[s].fd]
  BY <1>2 DEF Typed, Alone, SameFiles
<1>4. Merged(saves[s], Loaded(p))' = Merged(saves[s], Loaded(p))
  BY <1>2 DEF Merged, SameFiles
<1> QED
  BY <1>1, <1>2, <1>3, <1>4 DEF Alone, SameHooks, SameFiles

-----------------------------------------------------------------------------
(* A new hook *)

\* A hook of p is spawned, and it is the last one.
Grows(p, n, save) ==
  /\ n \in Nat /\ save.pc = "start" /\ saves'[n] = save /\ OfProvider(p) \subseteq Nat
  /\ OfProvider(p)' = OfProvider(p) \cup {n}
  /\ \A s \in OfProvider(p) : s < n /\ saves'[s] = saves[s]

LEMMA SpawnGrows ==
  ASSUME Typed, NEW p \in Providers, NEW save \in HookRecords, save.pc = "start",
         save.provider = p, saves' = Append(saves, save)
  PROVE  /\ Grows(p, Len(saves) + 1, save)
         /\ \A q \in Providers \ {p} : SameHooks(q)
<1> DEFINE n == Len(saves) + 1
<1>1. DOMAIN saves = 1..Len(saves) /\ Len(saves) \in Nat
  BY SaveTypes
<1>2. /\ DOMAIN saves' = DOMAIN saves \cup {n} /\ saves'[n] = save
      /\ \A s \in DOMAIN saves : saves'[s] = saves[s] /\ s < n
  BY <1>1, AppendProperties DEF Typed
<1>3. OfProvider(p)' = OfProvider(p) \cup {n}
  BY <1>2 DEF OfProvider
<1>4. \A q \in Providers \ {p} : OfProvider(q)' = OfProvider(q)
  BY <1>2 DEF OfProvider
<1>5. \A q \in Providers : OfProvider(q) \subseteq DOMAIN saves
  BY DEF OfProvider
<1> HIDE DEF n
<1>6. n \in Nat /\ DOMAIN saves \subseteq Nat
  BY <1>1 DEF n
<1> QED
  BY <1>2, <1>3, <1>4, <1>5, <1>6 DEF Grows, SameHooks, n

LEMMA GrowsOther ==
  ASSUME NEW p \in Providers, NEW n, NEW save, Grows(p, n, save),
         NEW kind, save.kind # kind
  PROVE  SameOfKind(p, kind)
  BY DEF Grows, SameOfKind, SameFields, Pending

LEMMA TidyGrows ==
  ASSUME Typed, NEW p \in Providers, NEW n, NEW save, Grows(p, n, save),
         FilesTidy(p), SameFiles(p)
  PROVE  FilesTidy(p)'
<1> SUFFICES ASSUME NEW s \in Busy(p)' PROVE Alone(p, s)'
  BY DEF FilesTidy, SameFiles
<1>1. Busy(p)' = Busy(p) /\ Busy(p) \subseteq OfProvider(p) /\ s \in Busy(p)
  BY DEF Busy, Grows
<1>2. Alone(p, s) /\ saves'[s] = saves[s] /\ s \in DOMAIN saves /\ s \in Nat /\ s < n
  BY <1>1, PendingTypes DEF FilesTidy, Grows
<1>3. saves[s].pc \in {"write", "rename"} => content'[saves[s].fd] = content[saves[s].fd]
  BY <1>2 DEF Typed, Alone, SameFiles
<1>4. Merged(saves[s], Loaded(p))' = Merged(saves[s], Loaded(p))
  BY <1>2 DEF Merged, SameFiles
<1>5. \A o \in OfProvider(p)' : saves'[o].kind = saves[s].kind => s <= o
  BY <1>2 DEF Alone, Grows
<1> QED
  BY <1>1, <1>2, <1>3, <1>4, <1>5 DEF Alone, SameFiles

LEMMA RoutingGrows ==
  ASSUME NEW p \in Providers, NEW n, NEW save, Grows(p, n, save),
         save.kind = "routing", save.blocked = blocked'[p], save.exhausted = exhausted'[p]
  PROVE  RoutingKept(p)'
<1>1. /\ Pending(p, "routing")' = Pending(p, "routing") \cup {n}
      /\ \A s \in Pending(p, "routing") : s \in Nat /\ s < n
      /\ n \in Nat
  BY DEF Grows, Pending
<1>2. \A s : IsLast(s, Pending(p, "routing"))' => s = n
  <2> SUFFICES ASSUME NEW s, IsLast(s, Pending(p, "routing"))' PROVE s = n
    OBVIOUS
  <2>1. n <= s /\ (s \in Pending(p, "routing") \/ s = n)
    BY <1>1 DEF IsLast
  <2> QED
    BY <1>1, <2>1
<1> QED
  BY <1>1, <1>2 DEF RoutingKept, Grows

LEMMA WindowsGrow ==
  ASSUME NEW p \in Providers, NEW n, NEW save, Grows(p, n, save),
         save.kind = "windows", save.windows = windows'[p]
  PROVE  WindowsKept(p)'
<1>1. /\ Pending(p, "windows")' = Pending(p, "windows") \cup {n}
      /\ \A s \in Pending(p, "windows") : s \in Nat /\ s < n
      /\ n \in Nat
  BY DEF Grows, Pending
<1>2. \A s : IsLast(s, Pending(p, "windows"))' => s = n
  <2> SUFFICES ASSUME NEW s, IsLast(s, Pending(p, "windows"))' PROVE s = n
    OBVIOUS
  <2>1. n <= s /\ (s \in Pending(p, "windows") \/ s = n)
    BY <1>1 DEF IsLast
  <2> QED
    BY <1>1, <2>1
<1> QED
  BY <1>1, <1>2 DEF WindowsKept, Grows

-----------------------------------------------------------------------------
(* Requests that are let through *)

\* What one Record does to a window, and to what is counted for its end.
LEMMA RecordCounts ==
  ASSUME Typed, HistoryTyped, HistoryTyped', PositiveWindows, now >= 1,
         NEW p \in Providers, NEW i \in DOMAIN Limits[p], NEW t \in Nat,
         windows'[p] = ChargeAll(windows[p], Limits[p], now),
         \/ Over(windows'[p], Limits[p]) = {} /\ Grant(p)
         \/ UNCHANGED granted
  PROVE  LET w == windows[p][i]
             charged == windows'[p][i]
         IN  /\ now < t \/ charged.resetAt = t =>
                  /\ now < t \/ (now = t /\ w.resetAt = t)
                  /\ CountAt(windows[p], i, t) + (IF charged.resetAt = t THEN 1 ELSE 0)
                       <= CountAt(windows'[p], i, t)
             /\ \/ Granted(p, i, t)' = Granted(p, i, t)
                \/ /\ charged.resetAt = t /\ Granted(p, i, t)' = Granted(p, i, t) + 1
                   /\ CountAt(windows'[p], i, t) <= Limits[p][i].requests
             /\ CountAt(windows'[p], i, t) \in Nat /\ CountAt(windows[p], i, t) \in Nat
<1> DEFINE w == windows[p][i]
           charged == windows'[p][i]
           cfg == Limits[p][i]
<1>1. w \in Window /\ cfg \in LimitConfig /\ cfg.window > 0 /\ now \in Nat
  BY LimitTypes DEF Typed, PositiveWindows
<1>2. charged = Charge(w, cfg, now)
  BY DEF ChargeAll
<1>3. /\ charged \in Window
      /\ \/ w.resetAt >= now /\ charged.resetAt = w.resetAt /\ charged.count = w.count + 1
         \/ w.resetAt < now /\ charged.resetAt > now /\ charged.count >= 1
  <2> HIDE DEF w, cfg, charged
  <2>1. CASE w.resetAt = 0 \/ now > w.resetAt
    <3>1. w.count \in Nat /\ w.resetAt \in Nat /\ cfg.window \in Nat
      BY <1>1 DEF Window, LimitConfig
    <3>2. NewWindow \in Window /\ NewWindow.resetAt = 0
      BY DEF NewWindow, Window
    <3>3. LazyReset(w, now) \in Window /\ LazyReset(w, now).resetAt = 0
      BY <1>1, <2>1, <3>1, <3>2 DEF LazyReset
    <3>4. PICK fresh \in Window : fresh = LazyReset(w, now) /\ fresh.resetAt = 0
      BY <3>3
    <3>5. PICK o \in Window :
            o = [fresh EXCEPT !.resetAt = now + cfg.window] /\ o.resetAt = now + cfg.window
      <4>1. PICK end \in Nat : end = now + cfg.window
        BY <1>1, <3>1
      <4>2. [fresh EXCEPT !.resetAt = end] \in Window /\ [fresh EXCEPT !.resetAt = end].resetAt = end
        BY <3>4 DEF Window
      <4> QED
        BY <4>1, <4>2
    <3>6. charged = [o EXCEPT !.count = o.count + 1]
      BY <1>2, <3>4, <3>5 DEF Charge, Open
    <3>7. charged \in Window /\ charged.resetAt = o.resetAt /\ charged.count = o.count + 1
      BY <3>6 DEF Window
    <3>8. o.count \in Nat
      BY DEF Window
    <3> QED
      BY <1>1, <2>1, <3>1, <3>5, <3>7, <3>8
  <2>2. CASE w.resetAt # 0 /\ ~(now > w.resetAt)
    BY <1>1, <1>2, <2>2 DEF Charge, Open, LazyReset, Window, LimitConfig, NewWindow
  <2> QED
    BY <2>1, <2>2
<1>4. i \in DOMAIN windows[p] /\ i \in DOMAIN windows'[p]
  BY DEF Typed, ChargeAll
<1>5. /\ CountAt(windows[p], i, t) = IF w.resetAt = t THEN w.count ELSE 0
      /\ CountAt(windows'[p], i, t) = IF charged.resetAt = t THEN charged.count ELSE 0
  BY <1>4 DEF CountAt
<1>6. w.resetAt \in Nat /\ w.count \in Nat /\ charged.resetAt \in Nat /\ charged.count \in Nat
  BY <1>1, <1>3 DEF Window
<1>7. \/ Granted(p, i, t)' = Granted(p, i, t)
      \/ /\ charged.resetAt = t /\ Granted(p, i, t)' = Granted(p, i, t) + 1
         /\ charged.count <= cfg.requests
  <2>1. CASE UNCHANGED granted
    BY <2>1 DEF Granted
  <2>2. CASE Over(windows'[p], Limits[p]) = {} /\ Grant(p)
    <3>1. charged.count <= cfg.requests
      BY <1>1, <1>6, <2>2 DEF Over, LimitConfig
    <3>2. granted'[p][i] = [u \in DOMAIN granted[p][i] \cup {charged.resetAt} |->
              (IF u \in DOMAIN granted[p][i] THEN granted[p][i][u] ELSE 0)
                + (IF u = charged.resetAt THEN 1 ELSE 0)]
      BY <2>2 DEF Grant, HistoryTyped
    <3>3. \A u \in DOMAIN granted[p][i] : granted[p][i][u] \in Nat
      BY DEF HistoryTyped
    <3> HIDE DEF charged
    <3>4. CASE t = charged.resetAt
      BY <3>1, <3>2, <3>3, <3>4 DEF Granted
    <3>5. CASE t # charged.resetAt
      BY <3>2, <3>3, <3>5 DEF Granted
    <3> QED
      BY <3>4, <3>5
  <2> QED
    BY <2>1, <2>2
<1> HIDE DEF w, charged, cfg
<1>8. ASSUME now < t \/ charged.resetAt = t
      PROVE  /\ now < t \/ (now = t /\ w.resetAt = t)
             /\ CountAt(windows[p], i, t) + (IF charged.resetAt = t THEN 1 ELSE 0)
                  <= CountAt(windows'[p], i, t)
  <2>1. CASE w.resetAt >= now /\ charged.resetAt = w.resetAt /\ charged.count = w.count + 1
    BY <1>1, <1>5, <1>6, <1>8, <2>1
  <2>2. CASE w.resetAt < now /\ charged.resetAt > now /\ charged.count >= 1
    BY <1>1, <1>5, <1>6, <1>8, <2>2
  <2> QED
    BY <1>3, <2>1, <2>2
<1>9. CountAt(windows'[p], i, t) \in Nat /\ CountAt(windows[p], i, t) \in Nat
  BY <1>5, <1>6
<1>10. \/ Granted(p, i, t)' = Granted(p, i, t)
       \/ /\ charged.resetAt = t /\ Granted(p, i, t)' = Granted(p, i, t) + 1
          /\ CountAt(windows'[p], i, t) <= cfg.requests
  BY <1>5, <1>7
<1> QED
  BY <1>8, <1>9, <1>10 DEF w, charged, cfg

\* Of the bound on what is let through, the part that is about memory.
LEMMA MemoryQuotaRecord ==
  ASSUME Typed, HistoryTyped, HistoryTyped', PositiveWindows, now >= 1, up, now' = now,
         NEW p \in Providers, QuotaKept(p), NEW i \in DOMAIN Limits[p], NEW t \in Nat,
         reloads' = reloads, lost'[p] = lost[p],
         windows'[p] = ChargeAll(windows[p], Limits[p], now),
         \/ Over(windows'[p], Limits[p]) = {} /\ Grant(p)
         \/ UNCHANGED granted
  PROVE  /\ Granted(p, i, t)' <= Limits[p][i].requests + Allowance(p, i)'
         /\ now < t \/ windows'[p][i].resetAt = t =>
              Granted(p, i, t)' <= CountAt(windows'[p], i, t) + Allowance(p, i)'
<1>1. /\ Limits[p][i].requests \in Nat /\ Allowance(p, i) \in Nat /\ Granted(p, i, t) \in Nat
      /\ Allowance(p, i)' = Allowance(p, i)
  BY QuotaTypes DEF Allowance
<1>2. /\ Granted(p, i, t) <= Limits[p][i].requests + Allowance(p, i)
      /\ now < t \/ (now = t /\ windows[p][i].resetAt = t) =>
           Granted(p, i, t) <= CountAt(windows[p], i, t) + Allowance(p, i)
  BY DEF QuotaKept, GrantedBound, MemoryQuota, FileQuota, HookQuota
<1>3. /\ now < t \/ windows'[p][i].resetAt = t =>
           /\ now < t \/ (now = t /\ windows[p][i].resetAt = t)
           /\ CountAt(windows[p], i, t) + (IF windows'[p][i].resetAt = t THEN 1 ELSE 0)
                <= CountAt(windows'[p], i, t)
      /\ \/ Granted(p, i, t)' = Granted(p, i, t)
         \/ /\ windows'[p][i].resetAt = t /\ Granted(p, i, t)' = Granted(p, i, t) + 1
            /\ CountAt(windows'[p], i, t) <= Limits[p][i].requests
      /\ CountAt(windows'[p], i, t) \in Nat /\ CountAt(windows[p], i, t) \in Nat
  BY RecordCounts
<1> QED
  BY <1>1, <1>2, <1>3

\* A request is recorded, and its save is the last of the pending ones.
LEMMA QuotaGrows ==
  ASSUME Typed, HistoryTyped, HistoryTyped', PositiveWindows, now >= 1, up, hooked,
         up' = up, hooked' = hooked, now' = now,
         NEW p \in Providers, QuotaKept(p),
         reloads' = reloads, lost'[p] = lost[p],
         windows'[p] = ChargeAll(windows[p], Limits[p], now),
         \/ Over(windows'[p], Limits[p]) = {} /\ Grant(p)
         \/ UNCHANGED granted,
         NEW n, NEW save, Grows(p, n, save), save.kind = "windows",
         save.windows = windows'[p],
         Loaded(p)'.windows = Loaded(p).windows
  PROVE  QuotaKept(p)'
<1> SUFFICES ASSUME NEW i \in DOMAIN Limits[p], NEW t \in Nat
             PROVE  /\ GrantedBound(p, i, t)' /\ MemoryQuota(p, i, t)'
                    /\ FileQuota(p, i, t)' /\ HookQuota(p, i, t)'
  BY DEF QuotaKept, GrantedBound, MemoryQuota, FileQuota, HookQuota
<1>1. /\ Granted(p, i, t)' <= Limits[p][i].requests + Allowance(p, i)'
      /\ now < t \/ windows'[p][i].resetAt = t =>
           Granted(p, i, t)' <= CountAt(windows'[p], i, t) + Allowance(p, i)'
  BY MemoryQuotaRecord
<1>2. Still(p, i, t) = 0 /\ Still(p, i, t)' = 0 /\ Allowance(p, i)' = Allowance(p, i)
  BY DEF Still, Allowance
<1>3. /\ Allowance(p, i) \in Nat /\ Granted(p, i, t) \in Nat
      /\ CountAt(Loaded(p).windows, i, t) \in Nat /\ CountAt(windows'[p], i, t) \in Nat
      /\ Granted(p, i, t)' \in Nat /\ Granted(p, i, t)' <= Granted(p, i, t) + 1
  <2>1. Loaded(p).windows \in Seq(Window)
    BY LoadedType DEF States
  <2>2. /\ CountAt(windows'[p], i, t) \in Nat
        /\ Granted(p, i, t)' \in {Granted(p, i, t), Granted(p, i, t) + 1}
    BY RecordCounts
  <2>3. /\ Allowance(p, i) \in Nat /\ Granted(p, i, t) \in Nat
        /\ CountAt(Loaded(p).windows, i, t) \in Nat
    BY <2>1, QuotaTypes
  <2> QED
    BY <2>2, <2>3
<1>4. /\ Pending(p, "windows")' = Pending(p, "windows") \cup {n}
      /\ n \notin Pending(p, "windows") /\ n \in Nat
      /\ \A s \in Pending(p, "windows") :
           s \in Nat /\ s < n /\ saves'[s] = saves[s]
      /\ saves'[n].windows = windows'[p]
  BY DEF Grows, Pending
<1>5. /\ Cardinality(Pending(p, "windows")') = Cardinality(Pending(p, "windows")) + 1
      /\ Cardinality(Pending(p, "windows")) \in Nat
  BY <1>4, PendingTypes, FS_AddElement
<1>6. ASSUME now < t
      PROVE  Granted(p, i, t)' + Still(p, i, t)'
              <= CountAt(Loaded(p)'.windows, i, t) + Cardinality(Pending(p, "windows")') + Allowance(p, i)'
  <2>1. Granted(p, i, t) + Still(p, i, t)
          <= CountAt(Loaded(p).windows, i, t) + Cardinality(Pending(p, "windows")) + Allowance(p, i)
    BY <1>6 DEF QuotaKept, GrantedBound, MemoryQuota, FileQuota, HookQuota
  <2> QED
    BY <2>1, <1>2, <1>3, <1>5
<1>7. ASSUME now < t, NEW s \in Pending(p, "windows")'
      PROVE  Granted(p, i, t)' + Still(p, i, t)'
                <= CountAt(saves'[s].windows, i, t) + Cardinality(Later(p, s)') + Allowance(p, i)'
  <2>1. CASE s = n
    <3>1. Later(p, s)' = {}
      BY <1>4, <2>1 DEF Later
    <3>2. Cardinality(Later(p, s)') = 0
      BY <3>1, FS_EmptySet
    <3> QED
      BY <1>1, <1>2, <1>3, <1>4, <1>7, <2>1, <3>2
  <2>2. CASE s \in Pending(p, "windows")
    <3>1. s \in DOMAIN saves /\ s \in Nat
      BY <2>2, PendingTypes
    <3>2. Later(p, s)' = Later(p, s) \cup {n} /\ n \notin Later(p, s)
      BY <1>4, <2>2 DEF Later
    <3>3. /\ Cardinality(Later(p, s)') = Cardinality(Later(p, s)) + 1
          /\ Cardinality(Later(p, s)) \in Nat
      BY <3>1, <3>2, PendingTypes, FS_AddElement
    <3>4. saves[s].windows \in Seq(Window) /\ saves'[s] = saves[s]
      BY <1>4, <2>2, <3>1, SaveTypes DEF HookRecords
    <3>5. CountAt(saves[s].windows, i, t) \in Nat
      BY <3>4, QuotaTypes
    <3>6. Granted(p, i, t) + Still(p, i, t)
            <= CountAt(saves[s].windows, i, t) + Cardinality(Later(p, s)) + Allowance(p, i)
      BY <1>7, <2>2 DEF QuotaKept, GrantedBound, MemoryQuota, FileQuota, HookQuota
    <3> QED
      BY <1>2, <1>3, <3>3, <3>4, <3>5, <3>6
  <2> QED
    BY <1>4, <1>7, <2>1, <2>2
<1> QED
  BY <1>1, <1>6, <1>7
     DEF GrantedBound, MemoryQuota, FileQuota, HookQuota, CountAt

\* The tracker of a reload records a request that no hook saves.
LEMMA QuotaUnhooked ==
  ASSUME Typed, Typed', HistoryTyped, HistoryTyped', PositiveWindows, now >= 1, up, ~hooked,
         up' = up, hooked' = hooked, now' = now,
         NEW p \in Providers, QuotaKept(p),
         reloads' = reloads, lost'[p] = lost[p],
         windows'[p] = ChargeAll(windows[p], Limits[p], now),
         \/ Over(windows'[p], Limits[p]) = {} /\ Grant(p)
         \/ UNCHANGED granted,
         SameOfKind(p, "windows"), Loaded(p)'.windows = Loaded(p).windows
  PROVE  QuotaKept(p)'
<1> SUFFICES ASSUME NEW i \in DOMAIN Limits[p], NEW t \in Nat
             PROVE  /\ GrantedBound(p, i, t)' /\ MemoryQuota(p, i, t)'
                    /\ FileQuota(p, i, t)' /\ HookQuota(p, i, t)'
  BY DEF QuotaKept, GrantedBound, MemoryQuota, FileQuota, HookQuota
<1>1. /\ Granted(p, i, t)' <= Limits[p][i].requests + Allowance(p, i)'
      /\ now < t \/ windows'[p][i].resetAt = t =>
           Granted(p, i, t)' <= CountAt(windows'[p], i, t) + Allowance(p, i)'
  BY MemoryQuotaRecord
<1>2. Allowance(p, i)' = Allowance(p, i)
  BY DEF Allowance
<1>3. /\ Allowance(p, i) \in Nat /\ Granted(p, i, t) \in Nat
      /\ Limits[p][i].requests \in Nat
      /\ CountAt(Loaded(p).windows, i, t) \in Nat
  <2>1. Loaded(p).windows \in Seq(Window)
    BY LoadedType DEF States
  <2> QED
    BY <2>1, QuotaTypes
<1>4. ASSUME now < t
      PROVE  Granted(p, i, t)' + Still(p, i, t)' <= Granted(p, i, t) + Still(p, i, t)
             /\ Granted(p, i, t)' + Still(p, i, t)' \in Nat /\ Still(p, i, t) \in Nat
  <2>1. /\ CountAt(windows[p], i, t) + (IF windows'[p][i].resetAt = t THEN 1 ELSE 0)
                <= CountAt(windows'[p], i, t)
        /\ \/ Granted(p, i, t)' = Granted(p, i, t)
           \/ /\ windows'[p][i].resetAt = t /\ Granted(p, i, t)' = Granted(p, i, t) + 1
              /\ CountAt(windows'[p], i, t) <= Limits[p][i].requests
        /\ CountAt(windows'[p], i, t) \in Nat /\ CountAt(windows[p], i, t) \in Nat
    BY <1>4, RecordCounts
  <2>2. /\ Still(p, i, t) = IF CountAt(windows[p], i, t) < Limits[p][i].requests
                            THEN Limits[p][i].requests - CountAt(windows[p], i, t) ELSE 0
        /\ Still(p, i, t)' = IF CountAt(windows'[p], i, t) < Limits[p][i].requests
                             THEN Limits[p][i].requests - CountAt(windows'[p], i, t) ELSE 0
    BY DEF Still, CountAt
  <2> QED
    BY <1>3, <2>1, <2>2
<1>5. ASSUME now < t
      PROVE  Granted(p, i, t)' + Still(p, i, t)'
              <= CountAt(Loaded(p)'.windows, i, t) + Cardinality(Pending(p, "windows")') + Allowance(p, i)'
  <2>1. Granted(p, i, t) + Still(p, i, t)
          <= CountAt(Loaded(p).windows, i, t) + Cardinality(Pending(p, "windows")) + Allowance(p, i)
    BY <1>5 DEF QuotaKept, GrantedBound, MemoryQuota, FileQuota, HookQuota
  <2> QED
    BY <2>1, <1>2, <1>3, <1>4, <1>5, PendingTypes, SameLater
<1>6. ASSUME now < t, NEW s \in Pending(p, "windows")'
      PROVE  Granted(p, i, t)' + Still(p, i, t)'
                <= CountAt(saves'[s].windows, i, t) + Cardinality(Later(p, s)') + Allowance(p, i)'
  <2>1. s \in Pending(p, "windows") /\ saves'[s].windows = saves[s].windows /\ Later(p, s)' = Later(p, s)
    BY <1>6, SameLater
  <2>2. s \in DOMAIN saves /\ s \in Nat
    BY <2>1, PendingTypes
  <2>3. saves[s].windows \in Seq(Window)
    BY <2>2, SaveTypes DEF HookRecords
  <2>4. CountAt(saves[s].windows, i, t) \in Nat /\ Cardinality(Later(p, s)) \in Nat
    BY <2>2, <2>3, QuotaTypes, PendingTypes
  <2>5. Granted(p, i, t) + Still(p, i, t)
          <= CountAt(saves[s].windows, i, t) + Cardinality(Later(p, s)) + Allowance(p, i)
    BY <1>6, <2>1 DEF QuotaKept, GrantedBound, MemoryQuota, FileQuota, HookQuota
  <2> QED
    BY <1>2, <1>3, <1>4, <1>6, <2>1, <2>4, <2>5
<1> QED
  BY <1>1, <1>5, <1>6
     DEF GrantedBound, MemoryQuota, FileQuota, HookQuota, CountAt

\* A reload gives the quota of one window away, once.
LEMMA QuotaReload ==
  ASSUME Typed, Typed', HistoryTyped, HistoryTyped', Reload,
         NEW p \in Providers, QuotaKept(p), SameHooks(p), Loaded(p)' = Loaded(p)
  PROVE  QuotaKept(p)'
<1> SUFFICES ASSUME NEW i \in DOMAIN Limits[p], NEW t \in Nat
             PROVE  /\ GrantedBound(p, i, t)' /\ MemoryQuota(p, i, t)'
                    /\ FileQuota(p, i, t)' /\ HookQuota(p, i, t)'
  BY DEF QuotaKept
<1> DEFINE requests == Limits[p][i].requests
<1>1. /\ Allowance(p, i) \in Nat /\ Granted(p, i, t) \in Nat /\ requests \in Nat
      /\ Still(p, i, t) \in Nat /\ CountAt(Loaded(p).windows, i, t) \in Nat
  <2>1. Loaded(p).windows \in Seq(Window)
    BY LoadedType DEF States
  <2> QED
    BY <2>1, QuotaTypes
<1>2. Allowance(p, i)' = Allowance(p, i) + requests
  <2>1. reloads \in Nat /\ reloads' = reloads + 1 /\ lost'[p] = lost[p] /\ lost[p] \in Nat
    BY DEF Reload, HistoryTyped
  <2>2. requests * (reloads + 1) = requests * reloads + requests /\ requests * reloads \in Nat
    BY <1>1, <2>1
  <2> HIDE DEF requests
  <2>3. /\ Allowance(p, i) = requests * reloads + lost[p]
        /\ Allowance(p, i)' = requests * (reloads + 1) + lost[p]
    BY <2>1 DEF Allowance, requests
  <2> QED
    BY <1>1, <2>1, <2>2, <2>3
<1>3. /\ windows'[p][i].resetAt = 0 /\ CountAt(windows'[p], i, t) = 0
      /\ Still(p, i, t)' = requests
  <2>1. windows'[p] = EnsureWindows(Limits[p]) /\ up' /\ ~hooked'
    BY DEF Reload
  <2>2. windows'[p][i] = NewWindow /\ i \in DOMAIN windows'[p]
    BY <2>1 DEF EnsureWindows
  <2>3. CountAt(windows'[p], i, t) = 0
    BY <2>2 DEF CountAt, NewWindow
  <2>4. Still(p, i, t)' = IF 0 < requests THEN requests - 0 ELSE 0
    BY <2>1, <2>3 DEF Still, CountAt
  <2> QED
    BY <1>1, <2>2, <2>3, <2>4 DEF NewWindow
<1>4. /\ Granted(p, i, t)' = Granted(p, i, t) /\ now' = now
      /\ Granted(p, i, t) <= requests + Allowance(p, i)
  BY DEF Reload, Granted, QuotaKept, GrantedBound, MemoryQuota, FileQuota, HookQuota
<1>5. SameOfKind(p, "windows") /\ Cardinality(Pending(p, "windows")) \in Nat
  BY SamePending, PendingTypes
<1> HIDE DEF requests
<1>6. ASSUME now' < t
      PROVE  Granted(p, i, t)' + Still(p, i, t)'
              <= CountAt(Loaded(p)'.windows, i, t) + Cardinality(Pending(p, "windows")') + Allowance(p, i)'
  <2>1. Granted(p, i, t) + Still(p, i, t)
          <= CountAt(Loaded(p).windows, i, t) + Cardinality(Pending(p, "windows")) + Allowance(p, i)
    BY <1>4, <1>6 DEF QuotaKept, GrantedBound, MemoryQuota, FileQuota, HookQuota
  <2> QED
    BY <2>1, <1>1, <1>2, <1>3, <1>4, <1>5, SameLater
<1>7. ASSUME now' < t, NEW s \in Pending(p, "windows")'
      PROVE  Granted(p, i, t)' + Still(p, i, t)'
                <= CountAt(saves'[s].windows, i, t) + Cardinality(Later(p, s)') + Allowance(p, i)'
  <2>1. s \in Pending(p, "windows") /\ saves'[s].windows = saves[s].windows /\ Later(p, s)' = Later(p, s)
    BY <1>5, <1>7, SameLater
  <2>2. s \in DOMAIN saves /\ s \in Nat
    BY <2>1, PendingTypes
  <2>3. saves[s].windows \in Seq(Window)
    BY <2>2, SaveTypes DEF HookRecords
  <2>4. CountAt(saves[s].windows, i, t) \in Nat /\ Cardinality(Later(p, s)) \in Nat
    BY <2>2, <2>3, QuotaTypes, PendingTypes
  <2>5. Granted(p, i, t) + Still(p, i, t)
          <= CountAt(saves[s].windows, i, t) + Cardinality(Later(p, s)) + Allowance(p, i)
    BY <1>4, <1>7, <2>1 DEF QuotaKept, GrantedBound, MemoryQuota, FileQuota, HookQuota
  <2> QED
    BY <1>1, <1>2, <1>3, <1>4, <2>1, <2>4, <2>5
<1>8. Granted(p, i, t)' <= requests + Allowance(p, i)'
  BY <1>1, <1>2, <1>4
<1>9. up' /\ (now' < t \/ (now' = t /\ windows'[p][i].resetAt = t)) =>
         Granted(p, i, t)' <= CountAt(windows'[p], i, t) + Allowance(p, i)'
  BY <1>1, <1>2, <1>3, <1>4
<1> QED
  BY <1>6, <1>7, <1>8, <1>9
     DEF requests, GrantedBound, MemoryQuota, FileQuota, HookQuota, CountAt

-----------------------------------------------------------------------------
(* Steps that leave memory as it is *)

SteadyMemory(p) ==
  /\ now <= now' /\ up' = up /\ hooked' = hooked
  /\ blocked'[p] = blocked[p] /\ exhausted'[p] = exhausted[p] /\ windows'[p] = windows[p]
  /\ unsaved'[p] = unsaved[p] /\ lost'[p] = lost[p] /\ reloads' = reloads
  /\ \A i \in DOMAIN Limits[p] : \A t \in Nat : Granted(p, i, t)' <= Granted(p, i, t)

LEMMA KeptMoves ==
  ASSUME Typed, Typed', HistoryTyped, HistoryTyped', NEW p \in Providers, Kept(p),
         SteadyMemory(p), SameOfKind(p, "routing"), SameOfKind(p, "windows"),
         Loaded(p)' = Loaded(p), FilesTidy(p)'
  PROVE  Kept(p)'
<1>1. ~unsaved'[p] => RoutingKept(p)'
  BY RoutingSteady DEF Kept, SteadyMemory
<1>2. up' /\ hooked' => WindowsKept(p)'
  BY WindowsSteady DEF Kept, SteadyMemory
<1>3. ASSUME PositiveWindows
      PROVE  QuotaKept(p)'
  BY <1>3, QuotaSteady DEF Kept, SteadyMemory
<1> QED
  BY <1>1, <1>2, <1>3 DEF Kept

LEMMA KeptSteady ==
  ASSUME Typed, Typed', HistoryTyped, HistoryTyped', NEW p \in Providers, Kept(p),
         SteadyMemory(p), SameHooks(p), SameFiles(p)
  PROVE  Kept(p)'
  BY KeptMoves, SamePending, TidySteady DEF Kept, SameFiles

-----------------------------------------------------------------------------
(* Steps of hooks *)

\* The hooks and the files of the other providers stay.
LEMMA OthersMove ==
  ASSUME IInv, NEW s \in DOMAIN saves, Moves(s), NEW q \in Providers,
         q # saves[s].provider, path'[q] = path[q], tmp'[q] = tmp[q],
         \A i \in 1..MaxSaves : i \in {path[q], tmp[q]} => content'[i] = content[i]
  PROVE  SameHooks(q) /\ SameFiles(q)
<1>1. SameHooks(q)
  BY DEF Moves, SameHooks, OfProvider
<1>2. path[q] # 0 => content'[path[q]] = content[path[q]]
  BY BoundsAssumption DEF IInv, Typed
<1>3. tmp[q] # 0 => content'[tmp[q]] = content[tmp[q]]
  BY BoundsAssumption DEF IInv, Typed
<1>4. Parses(q)' = Parses(q) /\ Loaded(q)' = Loaded(q)
  BY <1>2 DEF Parses, Loaded
<1> QED
  BY <1>1, <1>3, <1>4 DEF SameFiles

\* A hook that moves keeps its place and what it has captured.
LEMMA SelfMoves ==
  ASSUME NEW s \in DOMAIN saves, Moves(s), SameFields(saves'[s], saves[s]),
         saves[s].pc # "done", saves'[s].pc # "done", NEW p \in Providers
  PROVE  /\ OfProvider(p)' = OfProvider(p)
         /\ \A kind : SameOfKind(p, kind)
<1>1. OfProvider(p)' = OfProvider(p)
  BY DEF Moves, OfProvider
<1>2. \A o \in OfProvider(p) : SameFields(saves'[o], saves[o])
  BY DEF Moves, SameFields, OfProvider
<1> QED
  BY <1>1, <1>2 DEF SameOfKind, SameFields, Pending

\* What no hook touches.
HookFrame ==
  /\ UNCHANGED <<now, up, memory, hooked, held, unsaved, lost, reloads, granted>>
  /\ tidy' \in [Providers -> BOOLEAN] /\ \A p \in Providers : tidy'[p] => tidy[p]

LEMMA HookFrameFacts ==
  ASSUME HookFrame, HistoryTyped, Typed
  PROVE  HistoryTyped' /\ \A p \in Providers : SteadyMemory(p)
<1>1. HistoryTyped'
  BY DEF HookFrame, HistoryTyped
<1>2. \A p \in Providers : \A i \in DOMAIN Limits[p] : \A t \in Nat :
        Granted(p, i, t)' = Granted(p, i, t) /\ Granted(p, i, t) \in Nat
  BY QuotaTypes DEF HookFrame, Granted
<1>3. now \in Nat /\ now' = now
  BY DEF HookFrame, Typed
<1> QED
  BY <1>1, <1>2, <1>3 DEF HookFrame, SteadyMemory, memory

\* A step of a hook keeps everything if it keeps what its own provider needs.
LEMMA HookKept ==
  ASSUME KeptIInv, IInv', NEW s \in DOMAIN saves, Moves(s), HookFrame, saves[s].pc # "done",
         NEW p \in Providers, saves[s].provider = p,
         \A q \in Providers \ {p} :
           /\ path'[q] = path[q] /\ tmp'[q] = tmp[q]
           /\ \A i \in 1..MaxSaves : i \in {path[q], tmp[q]} => content'[i] = content[i],
         tidy'[p] => Kept(p)',
         InodesApart'
  PROVE  KeptIInv'
<1>1. Typed /\ Typed' /\ HistoryTyped /\ HistoryTyped'
  BY SaveTypes, HookFrameFacts DEF KeptIInv, IInv
<1>2. \A q \in Providers \ {p} : tidy'[q] => Kept(q)'
  <2> SUFFICES ASSUME NEW q \in Providers \ {p}, tidy'[q] PROVE Kept(q)'
    OBVIOUS
  <2>1. Kept(q)
    BY DEF HookFrame, KeptIInv, DiskIInv, KeptOK
  <2>2. SameHooks(q) /\ SameFiles(q) /\ SteadyMemory(q)
    BY <1>1, OthersMove, HookFrameFacts DEF KeptIInv
  <2> QED
    BY <1>1, <2>1, <2>2, KeptSteady
<1>3. DownIdle'
  <2>1. s \in OfProvider(p)
    BY DEF OfProvider
  <2>2. up
    BY <1>1, <2>1 DEF KeptIInv, DiskIInv, DownIdle
  <2> QED
    BY <2>2 DEF KeptIInv, DiskIInv, DownIdle, HookFrame
<1>4. KeptOK'
  BY <1>2 DEF KeptOK
<1>5. now' >= 1
  BY DEF KeptIInv, DiskIInv, HookFrame
<1> QED
  BY <1>1, <1>3, <1>4, <1>5 DEF KeptIInv, DiskIInv

\* No inode but a new one, and no name, is taken by a hook that has none yet.
LEMMA ApartMoves ==
  ASSUME InodesApart, NEW s \in DOMAIN saves, Moves(s),
         saves'[s].pc \in {"start", "open"} => saves[s].pc \in {"start", "open"},
         UNCHANGED <<path, tmp>>
  PROVE  InodesApart'
  BY DEF InodesApart, Moves

LEMMA LoadFileKept ==
  ASSUME KeptIInv, NEW s \in DOMAIN saves, LoadFile(s)
  PROVE  KeptIInv'
<1> PICK p \in Providers : p = saves[s].provider
  BY SaveTypes DEF KeptIInv, IInv
<1>1. saves[s] \in HookRecords /\ IInv /\ IInv'
  BY SaveTypes, LoadFileIInv DEF KeptIInv, IInv
<1>2. /\ saves[s].pc = "start" /\ saves'[s].pc = "open" /\ Moves(s)
      /\ saves'[s].draft = Merged(saves[s], Loaded(p))
      /\ SameFields(saves'[s], saves[s]) /\ saves'[s].fd = saves[s].fd
  BY <1>1 DEF LoadFile, At, Moves, SameFields, HookRecords
<1>3. HookFrame /\ UNCHANGED disk
  BY DEF LoadFile, HookFrame, KeptIInv, HistoryTyped
<1>4. tidy'[p] => Kept(p)'
  <2> SUFFICES ASSUME tidy'[p] PROVE Kept(p)'
    OBVIOUS
  <2>1. tidy[p] /\ ~Disturbs(s)
    BY <1>1 DEF LoadFile, KeptIInv, HistoryTyped
  <2>2. Kept(p)
    BY <1>1, <2>1 DEF KeptIInv, DiskIInv, KeptOK
  <2>3. /\ OfProvider(p)' = OfProvider(p)
        /\ SameOfKind(p, "routing") /\ SameOfKind(p, "windows")
    BY <1>2, SelfMoves
  <2>4. Loaded(p)' = Loaded(p) /\ Parses(p)' = Parses(p)
    BY <1>3 DEF Loaded, Parses, disk
  <2>5. \A o \in OfProvider(p) \ {s} :
          saves[o].pc = "start" /\ saves'[o] = saves[o]
            /\ (saves[o].kind = saves[s].kind => ~(o < s))
    BY <1>2, <2>1 DEF Disturbs, Moves, OfProvider
  <2>6. \A o \in Busy(p)' : o = s
    BY <2>3, <2>5 DEF Busy
  <2>7. \A o \in OfProvider(p)' : saves'[o].kind = saves'[s].kind => s <= o
    <3> SUFFICES ASSUME NEW o \in OfProvider(p), saves'[o].kind = saves'[s].kind PROVE s <= o
      BY <2>3
    <3>1. o \in Nat /\ s \in Nat
      BY <1>1, PendingTypes DEF IInv
    <3>2. CASE o = s
      BY <3>1, <3>2
    <3>3. CASE o # s
      BY <1>2, <2>5, <3>1, <3>3 DEF SameFields
    <3> QED
      BY <3>2, <3>3
  <2>8. saves'[s].draft = Merged(saves'[s], Loaded(p)')
    BY <1>2, <2>4 DEF Merged, SameFields
  <2>9. FilesTidy(p)'
    <3> SUFFICES ASSUME NEW o \in Busy(p)' PROVE Alone(p, o)'
      BY <2>2, <2>4 DEF FilesTidy, Kept
    <3>1. o = s
      BY <2>6
    <3>2. Alone(p, s)'
      BY <1>2, <2>6, <2>7, <2>8 DEF Alone, Merged
    <3> QED
      BY <3>1, <3>2
  <2> QED
    BY <1>1, <1>3, <2>2, <2>3, <2>4, <2>9, KeptMoves, HookFrameFacts DEF KeptIInv, IInv
<1>5. InodesApart'
  BY <1>2, <1>3, ApartMoves DEF KeptIInv, DiskIInv, disk
<1> QED
  BY <1>1, <1>2, <1>3, <1>4, <1>5, HookKept DEF disk

LEMMA OwnersDiffer ==
  ASSUME IInv, NEW p \in Providers, NEW i \in 1..MaxSaves, Owned(i, p),
         NEW q \in Providers \ {p}
  PROVE  i \notin {path[q], tmp[q]}
<1>1. i # 0
  BY BoundsAssumption
<1> QED
  BY <1>1 DEF IInv, NamesOwned, Owned

\* Of a provider whose hooks nothing disturbs, no other hook is under way.
LEMMA OnlyBusy ==
  ASSUME NEW p \in Providers, FilesTidy(p), NEW s \in DOMAIN saves,
         saves[s].provider = p, saves[s].pc \notin {"start", "done"}
  PROVE  Alone(p, s)
  BY DEF FilesTidy, Busy, OfProvider

LEMMA OpenTmpKept ==
  ASSUME KeptIInv, NEW s \in DOMAIN saves, OpenTmp(s)
  PROVE  KeptIInv'
<1> PICK p \in Providers : p = saves[s].provider
  BY SaveTypes DEF KeptIInv, IInv
<1>1. saves[s] \in HookRecords /\ IInv /\ IInv' /\ s \in 1..MaxSaves
  BY SaveTypes, OpenTmpIInv, BoundsAssumption DEF KeptIInv, IInv
<1>2. PICK inode \in 1..MaxSaves :
        /\ inode = IF tmp[p] = 0 THEN s ELSE tmp[p]
        /\ Owned(inode, p) /\ inode # path[p]
  <2>1. saves[s].pc = "open" /\ path[p] # s
    BY DEF OpenTmp, At, KeptIInv, DiskIInv, InodesApart
  <2>2. tmp[p] \in 0..MaxSaves /\ Owned(tmp[p], p) /\ (tmp[p] # 0 => path[p] # tmp[p])
    BY <1>1 DEF IInv, Typed, NamesOwned, KeptIInv, DiskIInv, InodesApart
  <2> QED
    BY <1>1, <2>1, <2>2, BoundsAssumption DEF Owned
<1>3. /\ tmp' = [tmp EXCEPT ![p] = inode]
      /\ content' = [content EXCEPT ![inode] = Empty]
      /\ saves' = [saves EXCEPT ![s].pc = "write", ![s].fd = inode]
      /\ UNCHANGED <<now, up, memory, hooked, path, history>>
  BY <1>2 DEF OpenTmp
<1>4. /\ saves[s].pc = "open" /\ saves'[s].pc = "write" /\ Moves(s)
      /\ saves'[s].draft = saves[s].draft
      /\ SameFields(saves'[s], saves[s]) /\ saves'[s].fd = inode
  <2>1. saves' = [saves EXCEPT ![s] = [saves[s] EXCEPT !.pc = "write", !.fd = inode]]
    BY <1>3
  <2>2. PICK save : save = [saves[s] EXCEPT !.pc = "write", !.fd = inode]
    OBVIOUS
  <2>3. /\ save.pc = "write" /\ save.fd = inode /\ save.provider = p
        /\ save.draft = saves[s].draft /\ SameFields(save, saves[s])
    BY <1>1, <2>2 DEF HookRecords, SameFields
  <2>4. saves' = [saves EXCEPT ![s] = save] /\ saves[s].pc = "open" /\ held' = held
    BY <1>3, <2>1, <2>2 DEF OpenTmp, At, history
  <2> QED
    BY <2>3, <2>4 DEF Moves
<1>5. HookFrame
  BY <1>3 DEF HookFrame, KeptIInv, HistoryTyped, history
<1>6. tmp'[p] = inode /\ content'[inode] = Empty
      /\ \A i \in 1..MaxSaves : i # inode => content'[i] = content[i]
  BY <1>1, <1>2, <1>3 DEF IInv, Typed
<1>7. \A q \in Providers \ {p} :
        /\ path'[q] = path[q] /\ tmp'[q] = tmp[q]
        /\ \A i \in 1..MaxSaves : i \in {path[q], tmp[q]} => content'[i] = content[i]
  <2> SUFFICES ASSUME NEW q \in Providers \ {p}
               PROVE  /\ path'[q] = path[q] /\ tmp'[q] = tmp[q]
                      /\ \A i \in 1..MaxSaves : i \in {path[q], tmp[q]} => content'[i] = content[i]
    OBVIOUS
  <2>1. inode \notin {path[q], tmp[q]}
    BY <1>1, <1>2, OwnersDiffer
  <2> QED
    BY <1>1, <1>3, <1>6, <2>1 DEF IInv, Typed
<1>8. tidy'[p] => Kept(p)'
  <2> SUFFICES ASSUME tidy'[p] PROVE Kept(p)'
    OBVIOUS
  <2>1. Kept(p)
    BY <1>5 DEF HookFrame, KeptIInv, DiskIInv, KeptOK
  <2>2. Alone(p, s)
    BY <1>4, <2>1, OnlyBusy DEF Kept
  <2>3. /\ OfProvider(p)' = OfProvider(p)
        /\ SameOfKind(p, "routing") /\ SameOfKind(p, "windows")
    BY <1>4, SelfMoves
  <2>4. Loaded(p)' = Loaded(p) /\ Parses(p)' = Parses(p)
    <3>1. path[p] # 0 => content'[path[p]] = content[path[p]]
      BY <1>1, <1>2, <1>6, BoundsAssumption DEF IInv, Typed
    <3> QED
      BY <1>3, <3>1 DEF Loaded, Parses
  <2>5. \A o \in DOMAIN saves : o # s => saves'[o] = saves[o]
    BY <1>4 DEF Moves
  <2>6. \A o \in Busy(p)' : o = s
    BY <1>4, <2>2, <2>3, <2>5 DEF Busy, Alone, OfProvider
  <2>7. Alone(p, s)'
    BY <1>4, <1>6, <2>2, <2>3, <2>4, <2>5, <2>6 DEF Alone, Merged, SameFields, OfProvider
  <2>8. FilesTidy(p)'
    BY <2>1, <2>4, <2>6, <2>7 DEF FilesTidy, Kept
  <2> QED
    BY <1>1, <1>5, <2>1, <2>3, <2>4, <2>8, KeptMoves, HookFrameFacts DEF KeptIInv, IInv
<1>9. InodesApart'
  <2>1. \A q \in Providers : tmp'[q] # 0 => path'[q] # tmp'[q]
    BY <1>1, <1>2, <1>3 DEF KeptIInv, DiskIInv, InodesApart, IInv, Typed
  <2>2. \A o \in DOMAIN saves : o # s /\ saves[o].pc \in {"start", "open"} => o # inode
    BY <1>2 DEF KeptIInv, DiskIInv, InodesApart
  <2>3. \A o \in DOMAIN saves' : saves'[o].pc \in {"start", "open"} =>
          o # s /\ saves[o].pc \in {"start", "open"} /\ o \in DOMAIN saves
    BY <1>4 DEF Moves
  <2>4. \A q \in Providers : path'[q] = path[q] /\ tmp'[q] \in {tmp[q], inode}
    BY <1>1, <1>3 DEF IInv, Typed
  <2>5. \A o \in DOMAIN saves' : saves'[o].pc \in {"start", "open"} =>
          \A q \in Providers : path'[q] # o /\ tmp'[q] # o
    BY <2>2, <2>3, <2>4 DEF KeptIInv, DiskIInv, InodesApart
  <2> QED
    BY <2>1, <2>5 DEF InodesApart
<1> QED
  BY <1>1, <1>4, <1>5, <1>7, <1>8, <1>9, HookKept

LEMMA WriteTmpKept ==
  ASSUME KeptIInv, NEW s \in DOMAIN saves, WriteTmp(s)
  PROVE  KeptIInv'
<1> PICK p \in Providers : p = saves[s].provider
  BY SaveTypes DEF KeptIInv, IInv
<1>1. saves[s] \in HookRecords /\ IInv /\ IInv' /\ saves[s].pc = "write"
  BY SaveTypes, WriteTmpIInv DEF KeptIInv, IInv, WriteTmp, At
<1>2. PICK inode \in 1..MaxSaves : inode = saves[s].fd /\ Owned(inode, p)
  <2>1. saves[s].fd \in 1..MaxSaves
    <3>1. saves[s].fd # 0 /\ saves[s].fd \in 0..MaxSaves
      BY <1>1 DEF HookRecords, IInv, Typed
    <3> QED
      BY <3>1, BoundsAssumption
  <2>2. Owned(saves[s].fd, p)
    BY <1>1 DEF IInv, NamesOwned
  <2> QED
    BY <2>1, <2>2
<1>3. PICK c \in AfterWrite(content[inode], saves[s].draft) :
        content' = [content EXCEPT ![inode] = c]
  BY <1>2 DEF WriteTmp
<1>4. /\ saves' = [saves EXCEPT ![s].pc = "rename"]
      /\ UNCHANGED <<now, up, memory, hooked, path, tmp, history>>
  BY DEF WriteTmp, Goto
<1>5. /\ saves'[s].pc = "rename" /\ Moves(s)
      /\ saves'[s].draft = saves[s].draft
      /\ SameFields(saves'[s], saves[s]) /\ saves'[s].fd = inode
  BY <1>1, <1>2, <1>4 DEF Moves, SameFields, HookRecords, history
<1>6. HookFrame
  BY <1>4 DEF HookFrame, KeptIInv, HistoryTyped, history
<1>7. content'[inode] = c /\ \A i \in 1..MaxSaves : i # inode => content'[i] = content[i]
  BY <1>1, <1>2, <1>3 DEF IInv, Typed
<1>8. \A q \in Providers \ {p} :
        /\ path'[q] = path[q] /\ tmp'[q] = tmp[q]
        /\ \A i \in 1..MaxSaves : i \in {path[q], tmp[q]} => content'[i] = content[i]
  BY <1>1, <1>2, <1>4, <1>7, OwnersDiffer
<1>9. tidy'[p] => Kept(p)'
  <2> SUFFICES ASSUME tidy'[p] PROVE Kept(p)'
    OBVIOUS
  <2>1. Kept(p)
    BY <1>6 DEF HookFrame, KeptIInv, DiskIInv, KeptOK
  <2>2. Alone(p, s)
    BY <1>1, <2>1, OnlyBusy DEF Kept
  <2>3. /\ OfProvider(p)' = OfProvider(p)
        /\ SameOfKind(p, "routing") /\ SameOfKind(p, "windows")
    BY <1>1, <1>5, SelfMoves
  <2>4. inode = tmp[p] /\ inode # path[p] /\ c = Whole(saves[s].draft)
    <3>1. inode = tmp[p] /\ content[inode] = Empty
      BY <1>1, <1>2, <2>2 DEF Alone
    <3>2. inode # path[p]
      BY <1>2, <3>1, BoundsAssumption DEF KeptIInv, DiskIInv, InodesApart
    <3> QED
      BY <1>3, <3>1, <3>2 DEF AfterWrite
  <2>5. Loaded(p)' = Loaded(p) /\ Parses(p)' = Parses(p)
    <3>1. path[p] # 0 => content'[path[p]] = content[path[p]]
      BY <1>1, <1>7, <2>4, BoundsAssumption DEF IInv, Typed
    <3> QED
      BY <1>4, <3>1 DEF Loaded, Parses
  <2>6. \A o \in DOMAIN saves : o # s => saves'[o] = saves[o]
    BY <1>5 DEF Moves
  <2>7. \A o \in Busy(p)' : o = s
    BY <1>1, <2>2, <2>3, <2>6 DEF Busy, Alone, OfProvider
  <2>8. Alone(p, s)'
    <3>1. Merged(saves'[s], Loaded(p)') = Merged(saves[s], Loaded(p))
      BY <1>5, <2>5 DEF Merged, SameFields
    <3>2. \A o \in OfProvider(p) : saves'[o].kind = saves[o].kind
      BY <1>5, <2>6 DEF SameFields, OfProvider
    <3>3. tmp'[p] = saves'[s].fd /\ content'[saves'[s].fd] = Whole(saves'[s].draft)
      BY <1>4, <1>5, <1>7, <2>4
    <3>4. s \in OfProvider(p)
      BY <1>1 DEF OfProvider
    <3> QED
      BY <1>5, <2>2, <2>3, <2>7, <3>1, <3>2, <3>3, <3>4 DEF Alone, Merged
  <2>9. FilesTidy(p)'
    BY <2>1, <2>5, <2>7, <2>8 DEF FilesTidy, Kept
  <2> QED
    BY <1>1, <1>6, <2>1, <2>3, <2>5, <2>9, KeptMoves, HookFrameFacts DEF KeptIInv, IInv
<1>10. InodesApart'
  BY <1>4, <1>5, ApartMoves DEF KeptIInv, DiskIInv
<1> QED
  BY <1>1, <1>5, <1>6, <1>8, <1>9, <1>10, HookKept

\* A hook ends that was the oldest of its kind.
Ends(p, s) ==
  /\ s \in OfProvider(p)
  /\ OfProvider(p)' = OfProvider(p) \ {s}
  /\ \A o \in OfProvider(p) \ {s} : saves'[o] = saves[o]
  /\ \A o \in OfProvider(p) : saves[o].kind = saves[s].kind => s <= o

LEMMA EndsPending ==
  ASSUME Typed, NEW p \in Providers, NEW s, Ends(p, s), NEW kind, saves[s].kind = kind
  PROVE  /\ s \in Pending(p, kind) /\ Pending(p, kind)' = Pending(p, kind) \ {s}
         /\ \A o \in Pending(p, kind) : s <= o /\ (o # s => saves'[o] = saves[o])
         /\ s \in DOMAIN saves /\ s \in Nat
<1>1. s \in DOMAIN saves /\ s \in Nat
  BY PendingTypes DEF Ends
<1>2. s \in Pending(p, kind) /\ Pending(p, kind)' = Pending(p, kind) \ {s}
  BY DEF Ends, Pending
<1>3. \A o \in Pending(p, kind) : s <= o /\ (o # s => saves'[o] = saves[o])
  BY DEF Ends, Pending
<1> QED
  BY <1>1, <1>2, <1>3

LEMMA EndsOther ==
  ASSUME NEW p \in Providers, NEW s, Ends(p, s), NEW kind, saves[s].kind # kind
  PROVE  SameOfKind(p, kind)
  BY DEF Ends, Pending, SameOfKind, SameFields

LEMMA RoutingEnds ==
  ASSUME Typed, NEW p \in Providers, NEW s, Ends(p, s), RoutingKept(p),
         saves[s].kind = "routing",
         Loaded(p)'.blocked = saves[s].blocked, Loaded(p)'.exhausted = saves[s].exhausted,
         now' = now, blocked'[p] = blocked[p], exhausted'[p] = exhausted[p]
  PROVE  RoutingKept(p)'
<1>1. /\ s \in Pending(p, "routing") /\ Pending(p, "routing")' = Pending(p, "routing") \ {s}
      /\ \A o \in Pending(p, "routing") : s <= o /\ (o # s => saves'[o] = saves[o])
      /\ s \in DOMAIN saves /\ s \in Nat
  BY EndsPending
<1>2. ASSUME Pending(p, "routing")' = {}
      PROVE  /\ Ahead(Loaded(p).blocked)' = Ahead(blocked[p])'
             /\ Ahead(Loaded(p).exhausted)' = Ahead(exhausted[p])'
  <2>1. IsLast(s, Pending(p, "routing"))
    BY <1>1, <1>2 DEF IsLast
  <2> QED
    BY <1>1, <2>1 DEF RoutingKept, Ahead
<1>3. ASSUME NEW o \in DOMAIN saves', IsLast(o, Pending(p, "routing"))'
      PROVE  saves'[o].blocked = blocked'[p] /\ saves'[o].exhausted = exhausted'[p]
  <2>1. o \in Pending(p, "routing") /\ s <= o /\ saves'[o] = saves[o] /\ o \in DOMAIN saves
    BY <1>1, <1>3, PendingTypes DEF IsLast
  <2>2. IsLast(o, Pending(p, "routing"))
    BY <1>1, <1>3, <2>1 DEF IsLast
  <2> QED
    BY <2>1, <2>2 DEF RoutingKept
<1> QED
  BY <1>2, <1>3 DEF RoutingKept

LEMMA WindowsEnd ==
  ASSUME Typed, NEW p \in Providers, NEW s, Ends(p, s), WindowsKept(p),
         saves[s].kind = "windows",
         Loaded(p)'.windows = saves[s].windows,
         now' = now, windows'[p] = windows[p]
  PROVE  WindowsKept(p)'
<1>1. /\ s \in Pending(p, "windows") /\ Pending(p, "windows")' = Pending(p, "windows") \ {s}
      /\ \A o \in Pending(p, "windows") : s <= o /\ (o # s => saves'[o] = saves[o])
      /\ s \in DOMAIN saves /\ s \in Nat
  BY EndsPending
<1>2. ASSUME Pending(p, "windows")' = {}, NEW i \in DOMAIN Limits[p]
      PROVE  RestoredWindows(p, Loaded(p).windows)'[i] = AheadOf(windows[p][i])'
  <2>1. IsLast(s, Pending(p, "windows"))
    BY <1>1, <1>2 DEF IsLast
  <2>2. Loaded(p)'.windows = windows[p]
    BY <1>1, <2>1 DEF WindowsKept
  <2>3. DOMAIN windows[p] = DOMAIN Limits[p]
    BY DEF Typed
  <2> QED
    BY <2>2, <2>3 DEF RestoredWindows, Restore, AheadOf
<1>3. ASSUME NEW o \in DOMAIN saves', IsLast(o, Pending(p, "windows"))'
      PROVE  saves'[o].windows = windows'[p]
  <2>1. o \in Pending(p, "windows") /\ s <= o /\ saves'[o] = saves[o] /\ o \in DOMAIN saves
    BY <1>1, <1>3, PendingTypes DEF IsLast
  <2>2. IsLast(o, Pending(p, "windows"))
    BY <1>1, <1>3, <2>1 DEF IsLast
  <2> QED
    BY <2>1, <2>2 DEF WindowsKept
<1> QED
  BY <1>2, <1>3 DEF WindowsKept

LEMMA QuotaEnds ==
  ASSUME Typed, HistoryTyped, HookFrame, NEW p \in Providers, NEW s, Ends(p, s), QuotaKept(p),
         saves[s].kind = "windows", Loaded(p)'.windows = saves[s].windows
  PROVE  QuotaKept(p)'
<1>1. /\ s \in Pending(p, "windows") /\ Pending(p, "windows")' = Pending(p, "windows") \ {s}
      /\ \A o \in Pending(p, "windows") : s <= o /\ (o # s => saves'[o] = saves[o])
      /\ s \in DOMAIN saves /\ s \in Nat
  BY EndsPending
<1> SUFFICES ASSUME NEW i \in DOMAIN Limits[p], NEW t \in Nat
             PROVE  /\ GrantedBound(p, i, t)' /\ MemoryQuota(p, i, t)'
                    /\ FileQuota(p, i, t)' /\ HookQuota(p, i, t)'
  BY DEF QuotaKept
<1>2. /\ GrantedBound(p, i, t) /\ MemoryQuota(p, i, t)
      /\ FileQuota(p, i, t) /\ HookQuota(p, i, t)
  BY DEF QuotaKept
<1>3. /\ Granted(p, i, t)' = Granted(p, i, t) /\ Still(p, i, t)' = Still(p, i, t)
      /\ Allowance(p, i)' = Allowance(p, i) /\ now' = now
      /\ CountAt(windows[p], i, t)' = CountAt(windows[p], i, t)
      /\ windows' = windows /\ up' = up
  BY DEF HookFrame, memory, Granted, Still, Allowance, CountAt
<1>4. GrantedBound(p, i, t)' /\ MemoryQuota(p, i, t)'
  BY <1>2, <1>3 DEF GrantedBound, MemoryQuota
<1>5. FileQuota(p, i, t)'
  <2> SUFFICES ASSUME now < t
               PROVE  Granted(p, i, t) + Still(p, i, t)
                        <= CountAt(saves[s].windows, i, t)
                             + Cardinality(Pending(p, "windows")') + Allowance(p, i)
    BY <1>3 DEF FileQuota, CountAt
  <2>1. Later(p, s) \subseteq Pending(p, "windows")'
    BY <1>1 DEF Later
  <2>2. IsFiniteSet(Pending(p, "windows")')
    BY <1>1, PendingTypes, FS_Subset
  <2>3. /\ Cardinality(Later(p, s)) <= Cardinality(Pending(p, "windows")')
        /\ Cardinality(Later(p, s)) \in Nat /\ Cardinality(Pending(p, "windows")') \in Nat
    BY <1>1, <2>1, <2>2, PendingTypes, FS_Subset, FS_CardinalityType
  <2>4. Granted(p, i, t) + Still(p, i, t)
          <= CountAt(saves[s].windows, i, t) + Cardinality(Later(p, s)) + Allowance(p, i)
    BY <1>1, <1>2 DEF HookQuota
  <2>5. saves[s].windows \in Seq(Window)
    BY <1>1, SaveTypes DEF HookRecords
  <2>6. /\ Allowance(p, i) \in Nat /\ Granted(p, i, t) \in Nat /\ Still(p, i, t) \in Nat
        /\ CountAt(saves[s].windows, i, t) \in Nat
    BY <2>5, QuotaTypes
  <2> QED
    BY <2>3, <2>4, <2>6
<1>6. HookQuota(p, i, t)'
  <2> SUFFICES ASSUME now < t, NEW o \in Pending(p, "windows")'
               PROVE  Granted(p, i, t) + Still(p, i, t)
                        <= CountAt(saves'[o].windows, i, t) + Cardinality(Later(p, o)') + Allowance(p, i)
    BY <1>3 DEF HookQuota, CountAt
  <2>1. o \in Pending(p, "windows") /\ saves'[o] = saves[o] /\ s <= o /\ o \in Nat
    BY <1>1, PendingTypes
  <2>2. Later(p, o)' = Later(p, o)
    BY <1>1, <2>1 DEF Later
  <2> QED
    BY <1>2, <2>1, <2>2 DEF HookQuota
<1> QED
  BY <1>4, <1>5, <1>6

\* An inode that a name refers to is not swept.
LEMMA SweptKeeps ==
  ASSUME Typed, content' = Swept, NEW p \in Providers, NEW i \in 1..MaxSaves,
         path'[p] = i \/ tmp'[p] = i
  PROVE  content'[i] = content[i]
  BY DEF Typed, Swept, InUse

LEMMA RenameTmpKept ==
  ASSUME KeptIInv, NEW s \in DOMAIN saves, RenameTmp(s)
  PROVE  KeptIInv'
<1> PICK p \in Providers : p = saves[s].provider
  BY SaveTypes DEF KeptIInv, IInv
<1>1. saves[s] \in HookRecords /\ IInv /\ IInv' /\ Typed /\ saves[s].pc = "rename"
  BY SaveTypes, RenameTmpIInv DEF KeptIInv, IInv, RenameTmp, At
<1>2. UNCHANGED <<now, up, memory, hooked, history>> /\ content' = Swept
  BY DEF RenameTmp
<1>3. /\ \/ tmp[p] # 0 /\ path' = [path EXCEPT ![p] = tmp[p]]
            /\ tmp' = [tmp EXCEPT ![p] = 0] /\ saves' = [saves EXCEPT ![s] = Ended(s)]
         \/ tmp[p] = 0 /\ UNCHANGED <<path, tmp>> /\ saves' = [saves EXCEPT ![s].pc = "remove"]
  BY DEF RenameTmp, Goto
<1>4. Moves(s) /\ saves'[s].pc \notin {"start", "open"}
      /\ (tmp[p] # 0 => saves'[s].pc = "done")
  <2>1. Ended(s).pc = "done" /\ Ended(s).provider = p
    BY <1>1, EndedType
  <2> QED
    BY <1>1, <1>2, <1>3, <2>1 DEF Moves, HookRecords, history
<1>5. HookFrame
  BY <1>2 DEF HookFrame, KeptIInv, HistoryTyped, history
<1>6. \A q \in Providers \ {p} :
        /\ path'[q] = path[q] /\ tmp'[q] = tmp[q]
        /\ \A i \in 1..MaxSaves : i \in {path[q], tmp[q]} => content'[i] = content[i]
  <2>1. \A q \in Providers \ {p} : path'[q] = path[q] /\ tmp'[q] = tmp[q]
    BY <1>1, <1>3 DEF Typed
  <2> QED
    BY <1>1, <1>2, <2>1, SweptKeeps
<1>7. tidy'[p] => Kept(p)'
  <2> SUFFICES ASSUME tidy'[p] PROVE Kept(p)'
    OBVIOUS
  <2>1. Kept(p)
    BY <1>5 DEF HookFrame, KeptIInv, DiskIInv, KeptOK
  <2>2. Alone(p, s)
    BY <1>1, <2>1, OnlyBusy DEF Kept
  <2>3. PICK inode \in 1..MaxSaves :
          inode = tmp[p] /\ content[inode] = Whole(saves[s].draft)
    BY <1>1, <2>2, BoundsAssumption DEF Alone, Typed
  <2>4. path'[p] = inode /\ saves' = [saves EXCEPT ![s] = Ended(s)]
    BY <1>1, <1>3, <2>3, BoundsAssumption DEF Typed
  <2>5. content'[inode] = Whole(saves[s].draft)
    BY <1>1, <1>2, <2>3, <2>4, SweptKeeps
  <2>6. Parses(p)' /\ Loaded(p)' = saves[s].draft
    BY <2>4, <2>5, BoundsAssumption DEF Parses, Loaded, Whole
  <2>7. Loaded(p)' = Merged(saves[s], Loaded(p))
    BY <2>2, <2>6 DEF Alone
  <2>8. Ends(p, s)
    <3>1. saves'[s].pc = "done" /\ s \in OfProvider(p)
      BY <1>1, <1>4, <2>3, BoundsAssumption DEF OfProvider
    <3>2. OfProvider(p)' = OfProvider(p) \ {s}
      BY <1>4, <3>1 DEF OfProvider, Moves
    <3> QED
      BY <1>4, <2>2, <3>1, <3>2 DEF Ends, Alone, Moves, OfProvider
  <2>9. FilesTidy(p)'
    <3>1. Busy(p)' = {}
      BY <2>2, <2>8 DEF Busy, Ends, Alone
    <3> QED
      BY <2>6, <3>1 DEF FilesTidy
  <2>10. SteadyMemory(p) /\ HistoryTyped /\ HistoryTyped' /\ Typed'
    BY <1>1, <1>5, HookFrameFacts DEF KeptIInv, IInv
  <2>11. Loaded(p) \in States
    BY <1>1, LoadedType
  <2>12. CASE saves[s].kind = "routing"
    <3>1. /\ Loaded(p)'.blocked = saves[s].blocked /\ Loaded(p)'.exhausted = saves[s].exhausted
          /\ Loaded(p)'.windows = Loaded(p).windows
      BY <2>7, <2>11, <2>12 DEF Merged, States
    <3>2. SameOfKind(p, "windows")
      BY <2>8, <2>12, EndsOther
    <3>3. ~unsaved'[p] => RoutingKept(p)'
      BY <1>1, <1>2, <2>1, <2>8, <2>10, <2>12, <3>1, RoutingEnds DEF Kept, SteadyMemory
    <3>4. up' /\ hooked' => WindowsKept(p)'
      BY <1>1, <2>1, <2>10, <3>1, <3>2, WindowsSteady DEF Kept, SteadyMemory
    <3>5. ASSUME PositiveWindows
          PROVE  QuotaKept(p)'
      BY <3>5, <1>1, <2>1, <2>10, <3>1, <3>2, QuotaSteady DEF Kept, SteadyMemory
    <3> QED
      BY <2>9, <3>3, <3>4, <3>5 DEF Kept
  <2>13. CASE saves[s].kind = "windows"
    <3>1. /\ Loaded(p)'.blocked = Loaded(p).blocked /\ Loaded(p)'.exhausted = Loaded(p).exhausted
          /\ Loaded(p)'.windows = saves[s].windows
      BY <2>7, <2>11, <2>13 DEF Merged, States
    <3>2. SameOfKind(p, "routing")
      BY <2>8, <2>13, EndsOther
    <3>3. ~unsaved'[p] => RoutingKept(p)'
      BY <1>1, <2>1, <2>10, <3>1, <3>2, RoutingSteady DEF Kept, SteadyMemory
    <3>4. up' /\ hooked' => WindowsKept(p)'
      BY <1>1, <1>2, <2>1, <2>8, <2>10, <2>13, <3>1, WindowsEnd DEF Kept, SteadyMemory
    <3>5. ASSUME PositiveWindows
          PROVE  QuotaKept(p)'
      BY <3>5, <1>1, <1>5, <2>1, <2>8, <2>10, <2>13, <3>1, QuotaEnds DEF Kept
    <3> QED
      BY <2>9, <3>3, <3>4, <3>5 DEF Kept
  <2> QED
    BY <1>1, <2>12, <2>13 DEF HookRecords
<1>8. InodesApart'
  <2>1. \A q \in Providers : tmp'[q] # 0 => path'[q] # tmp'[q]
    BY <1>1, <1>3 DEF KeptIInv, DiskIInv, InodesApart, Typed
  <2>2. \A o \in DOMAIN saves' : saves'[o].pc \in {"start", "open"} =>
          o \in DOMAIN saves /\ saves[o].pc \in {"start", "open"}
    BY <1>4 DEF Moves
  <2>3. \A q \in Providers : path'[q] \in {path[q], tmp[q]} /\ tmp'[q] \in {tmp[q], 0}
    BY <1>1, <1>3 DEF Typed
  <2>4. \A o \in DOMAIN saves : o # 0
    BY <1>1, SaveTypes
  <2> QED
    BY <2>1, <2>2, <2>3, <2>4 DEF KeptIInv, DiskIInv, InodesApart
<1> QED
  BY <1>1, <1>4, <1>5, <1>6, <1>7, <1>8, HookKept

\* A hook that could not rename is not alone.
LEMMA RemoveTmpKept ==
  ASSUME KeptIInv, NEW s \in DOMAIN saves, RemoveTmp(s)
  PROVE  KeptIInv'
<1> PICK p \in Providers : p = saves[s].provider
  BY SaveTypes DEF KeptIInv, IInv
<1>1. saves[s] \in HookRecords /\ IInv /\ IInv' /\ Typed /\ saves[s].pc = "remove"
  BY SaveTypes, RemoveTmpIInv DEF KeptIInv, IInv, RemoveTmp, At
<1>2. /\ UNCHANGED <<now, up, memory, hooked, path, history>>
      /\ content' = Swept /\ tmp' = [tmp EXCEPT ![p] = 0]
      /\ saves' = [saves EXCEPT ![s] = Ended(s)]
  BY DEF RemoveTmp
<1>3. Moves(s) /\ saves'[s].pc = "done"
  <2>1. Ended(s).pc = "done" /\ Ended(s).provider = p
    BY <1>1, EndedType
  <2> QED
    BY <1>1, <1>2, <2>1 DEF Moves, history
<1>4. HookFrame
  BY <1>2 DEF HookFrame, KeptIInv, HistoryTyped, history
<1>5. \A q \in Providers \ {p} :
        /\ path'[q] = path[q] /\ tmp'[q] = tmp[q]
        /\ \A i \in 1..MaxSaves : i \in {path[q], tmp[q]} => content'[i] = content[i]
  <2>1. \A q \in Providers \ {p} : path'[q] = path[q] /\ tmp'[q] = tmp[q]
    BY <1>1, <1>2 DEF Typed
  <2> QED
    BY <1>1, <1>2, <2>1, SweptKeeps
<1>6. ~tidy'[p]
  <2> SUFFICES ASSUME tidy[p] PROVE FALSE
    BY <1>4 DEF HookFrame
  <2>1. FilesTidy(p)
    BY DEF KeptIInv, DiskIInv, KeptOK, Kept
  <2> QED
    BY <1>1, <2>1, OnlyBusy DEF Alone
<1>7. InodesApart'
  <2>1. \A q \in Providers : path'[q] = path[q] /\ tmp'[q] \in {tmp[q], 0}
    BY <1>1, <1>2 DEF Typed
  <2>2. \A o \in DOMAIN saves' : saves'[o].pc \in {"start", "open"} =>
          o \in DOMAIN saves /\ saves[o].pc \in {"start", "open"} /\ o # 0
    BY <1>1, <1>3, SaveTypes DEF Moves
  <2> QED
    BY <2>1, <2>2 DEF KeptIInv, DiskIInv, InodesApart
<1> QED
  BY <1>1, <1>3, <1>4, <1>5, <1>6, <1>7, HookKept

-----------------------------------------------------------------------------
(* Steps of memory *)

LEMMA DiskSame ==
  ASSUME UNCHANGED disk, NEW p \in Providers
  PROVE  SameFiles(p)
  BY DEF SameFiles, disk, Loaded, Parses

LEMMA ApartSpawn ==
  ASSUME IInv, InodesApart, UNCHANGED disk, NEW save \in HookRecords,
         saves' = Append(saves, save)
  PROVE  InodesApart'
<1>1. DOMAIN saves = 1..Len(saves) /\ Len(saves) \in Nat
  BY SaveTypes DEF IInv
<1>2. /\ DOMAIN saves' = DOMAIN saves \cup {Len(saves) + 1}
      /\ \A s \in DOMAIN saves : saves'[s] = saves[s]
  BY <1>1, AppendProperties DEF IInv, Typed
<1>3. Len(saves) + 1 # 0 /\ Len(saves) + 1 \notin DOMAIN saves
  BY <1>1
<1>4. \A p \in Providers : path[p] # Len(saves) + 1 /\ tmp[p] # Len(saves) + 1
  BY <1>3 DEF IInv, NamesOwned, Owned
<1> QED
  BY <1>2, <1>4 DEF InodesApart, disk

\* What a call on one provider leaves alone.
CallFrame(p) ==
  /\ up /\ UNCHANGED <<now, up, hooked, disk, tidy, unsaved, lost, reloads>>
  /\ \A q \in Providers \ {p} :
      /\ blocked'[q] = blocked[q] /\ exhausted'[q] = exhausted[q]
      /\ windows'[q] = windows[q] /\ granted'[q] = granted[q]

LEMMA CallSteady ==
  ASSUME KeptIInv, NEW p \in Providers, CallFrame(p), NEW q \in Providers \ {p}
  PROVE  SteadyMemory(q)
<1>1. now \in Nat /\ now' = now
  BY DEF KeptIInv, IInv, Typed, CallFrame
<1>2. \A i \in DOMAIN Limits[q] : \A t \in Nat :
        Granted(q, i, t)' = Granted(q, i, t) /\ Granted(q, i, t) \in Nat
  BY QuotaTypes DEF CallFrame, Granted, KeptIInv, IInv
<1> QED
  BY <1>1, <1>2 DEF CallFrame, SteadyMemory

LEMMA SpawnKept ==
  ASSUME KeptIInv, IInv', HistoryTyped', NEW p \in Providers, CallFrame(p),
         NEW save \in HookRecords, saves' = Append(saves, save),
         save.pc = "start", save.provider = p, tidy[p] => Kept(p)'
  PROVE  KeptIInv'
<1>1. Typed /\ Typed' /\ HistoryTyped /\ IInv /\ UNCHANGED disk
  BY DEF KeptIInv, IInv, CallFrame
<1>2. \A q \in Providers \ {p} : tidy'[q] => Kept(q)'
  <2> SUFFICES ASSUME NEW q \in Providers \ {p}, tidy'[q] PROVE Kept(q)'
    OBVIOUS
  <2>1. Kept(q)
    BY DEF CallFrame, KeptIInv, DiskIInv, KeptOK
  <2>2. SameHooks(q) /\ SameFiles(q) /\ SteadyMemory(q)
    BY <1>1, SpawnGrows, DiskSame, CallSteady
  <2> QED
    BY <1>1, <2>1, <2>2, KeptSteady
<1>3. KeptOK'
  BY <1>2 DEF KeptOK, CallFrame
<1>4. InodesApart'
  BY <1>1, ApartSpawn DEF KeptIInv, DiskIInv
<1>5. DownIdle' /\ now' >= 1
  BY DEF KeptIInv, DiskIInv, DownIdle, CallFrame
<1> QED
  BY <1>3, <1>4, <1>5 DEF KeptIInv, DiskIInv

\* Memory and the captured times are one after a call that spawns a routing hook.
LEMMA RoutingKeeps ==
  ASSUME KeptIInv, IInv', HistoryTyped', NEW p \in Providers, CallFrame(p), tidy[p],
         windows' = windows, granted' = granted,
         NEW save \in HookRecords, saves' = Append(saves, save), save.pc = "start",
         save.provider = p, save.kind = "routing",
         save.blocked = blocked'[p], save.exhausted = exhausted'[p]
  PROVE  Kept(p)'
<1>1. Typed /\ Typed' /\ HistoryTyped /\ IInv /\ UNCHANGED disk /\ Kept(p)
  BY DEF KeptIInv, IInv, CallFrame, DiskIInv, KeptOK
<1>2. Grows(p, Len(saves) + 1, save) /\ SameFiles(p)
  BY <1>1, SpawnGrows, DiskSame
<1>3. FilesTidy(p)'
  BY <1>1, <1>2, TidyGrows DEF Kept
<1>4. RoutingKept(p)'
  BY <1>2, RoutingGrows
<1>5. SameOfKind(p, "windows") /\ Loaded(p)'.windows = Loaded(p).windows /\ now <= now'
  <2>1. SameOfKind(p, "windows")
    BY <1>2, GrowsOther
  <2> QED
    BY <1>1, <1>2, <2>1 DEF SameFiles, CallFrame, Typed
<1>6. up' /\ hooked' => WindowsKept(p)'
  BY <1>1, <1>5, WindowsSteady DEF Kept, CallFrame
<1>7. ASSUME PositiveWindows
      PROVE  QuotaKept(p)'
  <2>1. \A i \in DOMAIN Limits[p] : \A t \in Nat :
          Granted(p, i, t)' = Granted(p, i, t) /\ Granted(p, i, t) \in Nat
    BY <1>1, QuotaTypes DEF Granted
  <2>2. \A i \in DOMAIN Limits[p] : \A t \in Nat : Granted(p, i, t)' <= Granted(p, i, t)
    BY <2>1
  <2> QED
    BY <1>1, <1>5, <1>7, <2>2, QuotaSteady DEF Kept, CallFrame
<1> QED
  BY <1>3, <1>4, <1>6, <1>7 DEF Kept

LEMMA BlockKept ==
  ASSUME KeptIInv, NEW p \in Providers, NEW d \in BlockFor, Block(p, d)
  PROVE  KeptIInv'
<1>1. now + d \in Nat /\ exhausted[p] \in Nat /\ IInv'
  <2>1. IInv'
    BY BlockIInv DEF KeptIInv
  <2>2. now \in Nat /\ d \in Nat /\ exhausted[p] \in Nat
    BY BoundsAssumption DEF KeptIInv, IInv, Typed
  <2> QED
    BY <2>1, <2>2
<1>2. PICK save \in HookRecords : save = RoutingSave(p, now + d, exhausted[p])
  BY <1>1, RoutingSaveType
<1>3. /\ save.pc = "start" /\ saves' = Append(saves, save)
      /\ save.provider = p /\ save.kind = "routing"
      /\ save.blocked = now + d /\ save.exhausted = exhausted[p]
  BY <1>2 DEF Block, Spawn, RoutingSave
<1>4. /\ CallFrame(p) /\ HistoryTyped' /\ windows' = windows /\ granted' = granted
      /\ blocked'[p] = now + d /\ exhausted'[p] = exhausted[p]
  BY DEF Block, CallFrame, KeptIInv, IInv, Typed, HistoryTyped
<1> QED
  BY <1>1, <1>3, <1>4, SpawnKept, RoutingKeeps

LEMMA SetExhaustedKept ==
  ASSUME KeptIInv, NEW p \in Providers, NEW resetAt \in Nat, SetExhausted(p, resetAt)
  PROVE  KeptIInv'
<1>1. blocked[p] \in Nat /\ IInv'
  BY SetExhaustedIInv DEF KeptIInv, IInv, Typed
<1>2. PICK save \in HookRecords : save = RoutingSave(p, blocked[p], resetAt)
  BY <1>1, RoutingSaveType
<1>3. /\ save.pc = "start" /\ saves' = Append(saves, save)
      /\ save.provider = p /\ save.kind = "routing"
      /\ save.blocked = blocked[p] /\ save.exhausted = resetAt
  BY <1>2 DEF SetExhausted, Spawn, RoutingSave
<1>4. /\ CallFrame(p) /\ HistoryTyped' /\ windows' = windows /\ granted' = granted
      /\ blocked'[p] = blocked[p] /\ exhausted'[p] = resetAt
  BY DEF SetExhausted, CallFrame, KeptIInv, IInv, Typed, HistoryTyped
<1> QED
  BY <1>1, <1>3, <1>4, SpawnKept, RoutingKeeps

LEMMA GrantTypes ==
  ASSUME KeptIInv, Typed', NEW p \in Providers, Record(p)
  PROVE  HistoryTyped'
<1>1. UNCHANGED <<tidy, unsaved, lost, reloads>>
  BY DEF Record
<1>2. CASE UNCHANGED granted
  BY <1>1, <1>2 DEF KeptIInv, HistoryTyped
<1>3. CASE Grant(p)
  <2>1. /\ DOMAIN granted' = Providers
        /\ \A q \in Providers \ {p} : granted'[q] = granted[q]
        /\ DOMAIN granted'[p] = DOMAIN Limits[p]
    BY <1>3 DEF Grant, KeptIInv, HistoryTyped
  <2>2. ASSUME NEW i \in DOMAIN Limits[p], NEW t \in DOMAIN granted'[p][i]
        PROVE  t \in Nat /\ granted'[p][i][t] \in Nat
    <3>1. PICK end \in Nat : end = windows'[p][i].resetAt
      BY DEF Typed, Window
    <3>2. granted'[p][i] = [u \in DOMAIN granted[p][i] \cup {end} |->
              (IF u \in DOMAIN granted[p][i] THEN granted[p][i][u] ELSE 0)
                + (IF u = end THEN 1 ELSE 0)]
      BY <1>3, <3>1 DEF Grant, KeptIInv, HistoryTyped
    <3>3. \A u \in DOMAIN granted[p][i] : u \in Nat /\ granted[p][i][u] \in Nat
      BY DEF KeptIInv, HistoryTyped
    <3> QED
      BY <3>1, <3>2, <3>3
  <2> QED
    BY <1>1, <2>1, <2>2 DEF KeptIInv, HistoryTyped
<1> QED
  BY <1>2, <1>3 DEF Record

LEMMA RecordKept ==
  ASSUME KeptIInv, NEW p \in Providers, Record(p)
  PROVE  KeptIInv'
<1> DEFINE ws == ChargeAll(windows[p], Limits[p], now)
<1>1. IInv /\ IInv' /\ Typed /\ Typed' /\ HistoryTyped /\ HistoryTyped'
  BY RecordIInv, GrantTypes DEF KeptIInv, IInv
<1>2. ws \in Seq(Window) /\ windows'[p] = ws
  BY <1>1, ChargeTypes, LimitTypes DEF Typed, Record
<1>3. CallFrame(p) /\ UNCHANGED <<blocked, exhausted>>
  BY <1>1 DEF Record, CallFrame, Grant, Typed, HistoryTyped
<1>4. \/ Over(windows'[p], Limits[p]) = {} /\ Grant(p)
      \/ UNCHANGED granted
  BY <1>2 DEF Record
<1>5. UNCHANGED disk /\ SameFiles(p) /\ now >= 1 /\ up /\ now' = now /\ now <= now'
  BY <1>1, <1>3, DiskSame DEF CallFrame, KeptIInv, DiskIInv, Typed
<1>6. /\ blocked'[p] = blocked[p] /\ exhausted'[p] = exhausted[p] /\ unsaved'[p] = unsaved[p]
      /\ Loaded(p)'.blocked = Loaded(p).blocked /\ Loaded(p)'.exhausted = Loaded(p).exhausted
  BY <1>3, <1>5 DEF CallFrame, SameFiles
<1> HIDE DEF ws
<1>7. CASE hooked /\ Spawn(WindowsSave(p, ws))
  <2>1. PICK save \in HookRecords : save = WindowsSave(p, ws)
    BY <1>2, WindowsSaveType
  <2>2. /\ saves' = Append(saves, save) /\ save.pc = "start" /\ save.provider = p
        /\ save.kind = "windows" /\ save.windows = windows'[p]
    BY <1>2, <1>7, <2>1 DEF Spawn, WindowsSave, RoutingSave
  <2>3. tidy[p] => Kept(p)'
    <3> SUFFICES ASSUME tidy[p] PROVE Kept(p)'
      OBVIOUS
    <3>1. Kept(p)
      BY DEF KeptIInv, DiskIInv, KeptOK
    <3>2. Grows(p, Len(saves) + 1, save)
      BY <1>1, <2>2, SpawnGrows
    <3>3. FilesTidy(p)'
      BY <1>1, <1>5, <3>1, <3>2, TidyGrows DEF Kept
    <3>4. SameOfKind(p, "routing")
      BY <2>2, <3>2, GrowsOther
    <3>5. ~unsaved'[p] => RoutingKept(p)'
      BY <1>1, <1>5, <1>6, <3>1, <3>4, RoutingSteady DEF Kept
    <3>6. WindowsKept(p)'
      BY <2>2, <3>2, WindowsGrow
    <3>7. ASSUME PositiveWindows
          PROVE  QuotaKept(p)'
      BY <3>7, <1>1, <1>2, <1>3, <1>4, <1>5, <1>7, <2>2, <3>1, <3>2, QuotaGrows
         DEF Kept, CallFrame, SameFiles, ws
    <3> QED
      BY <3>3, <3>5, <3>6, <3>7 DEF Kept
  <2> QED
    BY <1>1, <1>3, <2>2, <2>3, SpawnKept
<1>8. CASE ~hooked /\ UNCHANGED saves
  <2>1. \A q \in Providers : SameHooks(q) /\ SameFiles(q)
    BY <1>5, <1>8, DiskSame DEF SameHooks, OfProvider
  <2>2. \A q \in Providers \ {p} : tidy'[q] => Kept(q)'
    <3> SUFFICES ASSUME NEW q \in Providers \ {p}, tidy'[q] PROVE Kept(q)'
      OBVIOUS
    <3>1. Kept(q) /\ SteadyMemory(q)
      BY <1>3, CallSteady DEF CallFrame, KeptIInv, DiskIInv, KeptOK
    <3> QED
      BY <1>1, <2>1, <3>1, KeptSteady
  <2>3. tidy'[p] => Kept(p)'
    <3> SUFFICES ASSUME tidy'[p] PROVE Kept(p)'
      OBVIOUS
    <3>1. Kept(p)
      BY <1>3 DEF KeptIInv, DiskIInv, KeptOK, CallFrame
    <3>2. SameOfKind(p, "routing") /\ SameOfKind(p, "windows")
      BY <2>1, SamePending
    <3>3. FilesTidy(p)'
      BY <1>1, <2>1, <3>1, TidySteady DEF Kept
    <3>4. ~unsaved'[p] => RoutingKept(p)'
      BY <1>1, <1>5, <1>6, <3>1, <3>2, RoutingSteady DEF Kept
    <3>5. ASSUME PositiveWindows
          PROVE  QuotaKept(p)'
      BY <3>5, <1>1, <1>2, <1>3, <1>4, <1>5, <1>8, <3>1, <3>2, QuotaUnhooked
         DEF Kept, CallFrame, SameFiles, ws
    <3> QED
      BY <1>3, <1>8, <3>3, <3>4, <3>5 DEF Kept, CallFrame
  <2>4. KeptOK'
    BY <2>2, <2>3 DEF KeptOK
  <2>5. InodesApart' /\ DownIdle' /\ now' >= 1
    BY <1>3, <1>5, <1>8 DEF KeptIInv, DiskIInv, InodesApart, DownIdle, CallFrame, disk
  <2> QED
    BY <1>1, <2>4, <2>5 DEF KeptIInv, DiskIInv
<1> QED
  BY <1>7, <1>8 DEF Record, ws

-----------------------------------------------------------------------------
(* The clock, a reload, a crash and a restart *)

LEMMA TickKept ==
  ASSUME KeptIInv, Tick
  PROVE  KeptIInv'
<1>1. IInv' /\ Typed /\ Typed' /\ HistoryTyped
  BY TickIInv DEF KeptIInv, IInv
<1>2. UNCHANGED <<up, memory, hooked, saves, disk, tidy, unsaved, lost, reloads>>
      /\ now' = now + 1 /\ now \in Nat
  BY <1>1 DEF Tick, Typed
<1>3. /\ DOMAIN granted' = Providers
      /\ \A p \in Providers :
          /\ DOMAIN granted'[p] = DOMAIN Limits[p]
          /\ \A i \in DOMAIN Limits[p] :
              granted'[p][i] = [t \in {u \in DOMAIN granted[p][i] : u > now} |-> granted[p][i][t]]
  BY DEF Tick
<1>4. HistoryTyped'
  <2>1. \A p \in Providers : \A i \in DOMAIN Limits[p] : \A t \in DOMAIN granted'[p][i] :
          t \in DOMAIN granted[p][i] /\ granted'[p][i][t] = granted[p][i][t]
    <3> SUFFICES ASSUME NEW p \in Providers, NEW i \in DOMAIN Limits[p],
                        NEW t \in DOMAIN granted'[p][i]
                 PROVE  t \in DOMAIN granted[p][i] /\ granted'[p][i][t] = granted[p][i][t]
      OBVIOUS
    <3>1. granted'[p][i] = [v \in {u \in DOMAIN granted[p][i] : u > now} |-> granted[p][i][v]]
      BY <1>3
    <3> QED
      BY <3>1
  <2> QED
    BY <1>1, <1>2, <1>3, <2>1 DEF HistoryTyped
<1>5. ASSUME NEW p \in Providers, tidy'[p]
      PROVE  Kept(p)'
  <2>1. Kept(p) /\ SameHooks(p) /\ SameFiles(p)
    BY <1>2, <1>5, DiskSame DEF KeptIInv, DiskIInv, KeptOK, SameHooks, OfProvider
  <2>2. \A i \in DOMAIN Limits[p] : \A t \in Nat : Granted(p, i, t)' <= Granted(p, i, t)
    <3> SUFFICES ASSUME NEW i \in DOMAIN Limits[p], NEW t \in Nat
                 PROVE  Granted(p, i, t)' <= Granted(p, i, t)
      OBVIOUS
    <3>1. Granted(p, i, t) \in Nat
      BY <1>1, QuotaTypes
    <3>2. granted'[p][i] = [v \in {u \in DOMAIN granted[p][i] : u > now} |-> granted[p][i][v]]
      BY <1>3
    <3>3. Granted(p, i, t)' \in {0, Granted(p, i, t)}
      BY <3>2 DEF Granted
    <3> QED
      BY <3>1, <3>3
  <2>3. SteadyMemory(p)
    BY <1>2, <2>2 DEF SteadyMemory, memory
  <2> QED
    BY <1>1, <1>4, <2>1, <2>3, KeptSteady
<1>6. KeptOK'
  BY <1>5 DEF KeptOK
<1>7. InodesApart' /\ DownIdle' /\ now' >= 1
  BY <1>2 DEF KeptIInv, DiskIInv, InodesApart, DownIdle, disk, OfProvider
<1> QED
  BY <1>1, <1>4, <1>6, <1>7 DEF KeptIInv, DiskIInv

LEMMA ReloadKept ==
  ASSUME KeptIInv, Reload
  PROVE  KeptIInv'
<1>1. IInv' /\ Typed /\ Typed' /\ HistoryTyped
  BY ReloadIInv DEF KeptIInv, IInv
<1>2. /\ UNCHANGED <<now, up, blocked, exhausted, saves, disk, tidy, unsaved, lost, granted>>
      /\ reloads' = reloads + 1 /\ ~hooked'
  BY DEF Reload
<1>3. HistoryTyped'
  BY <1>1, <1>2 DEF HistoryTyped
<1>4. ASSUME NEW p \in Providers, tidy'[p]
      PROVE  Kept(p)'
  <2>1. Kept(p) /\ SameHooks(p) /\ SameFiles(p)
    BY <1>2, <1>4, DiskSame DEF KeptIInv, DiskIInv, KeptOK, SameHooks, OfProvider
  <2>2. FilesTidy(p)' /\ Loaded(p)' = Loaded(p)
    BY <1>1, <2>1, TidySteady DEF Kept, SameFiles
  <2>3. now <= now' /\ SameOfKind(p, "routing")
    BY <1>1, <1>2, <2>1, SamePending DEF Typed
  <2>4. ~unsaved'[p] => RoutingKept(p)'
    BY <1>1, <1>2, <2>1, <2>2, <2>3, RoutingSteady DEF Kept
  <2>5. ASSUME PositiveWindows
        PROVE  QuotaKept(p)'
    BY <2>5, <1>1, <1>3, <2>1, <2>2, QuotaReload DEF Kept
  <2> QED
    BY <1>2, <2>2, <2>4, <2>5 DEF Kept
<1>5. KeptOK'
  BY <1>4 DEF KeptOK
<1>6. InodesApart' /\ DownIdle' /\ now' >= 1
  BY <1>2 DEF KeptIInv, DiskIInv, InodesApart, DownIdle, disk, OfProvider
<1> QED
  BY <1>1, <1>3, <1>5, <1>6 DEF KeptIInv, DiskIInv

LEMMA CrashKept ==
  ASSUME KeptIInv, Crash
  PROVE  KeptIInv'
<1>1. IInv' /\ IInv /\ Typed /\ Typed' /\ HistoryTyped
  BY CrashIInv DEF KeptIInv, IInv
<1>2. /\ UNCHANGED <<now, memory, hooked, tidy, reloads, granted, path, tmp>>
      /\ content' = Swept /\ up /\ ~up'
      /\ unsaved' = [p \in Providers |-> Pending(p, "routing") # {}]
      /\ lost' = [p \in Providers |-> lost[p] + Cardinality(Pending(p, "windows"))]
  BY DEF Crash
<1>3. \A p \in Providers : Cardinality(Pending(p, "windows")) \in Nat
  BY <1>1, PendingTypes
<1>4. HistoryTyped'
  BY <1>1, <1>2, <1>3 DEF HistoryTyped
<1>5. /\ DOMAIN saves' = DOMAIN saves
      /\ \A s \in DOMAIN saves' : saves'[s].pc = "done"
  BY <1>1, EndedType DEF Crash
<1>6. \A p \in Providers :
        /\ OfProvider(p)' = {} /\ Busy(p)' = {}
        /\ Pending(p, "routing")' = {} /\ Pending(p, "windows")' = {}
  BY <1>5 DEF OfProvider, Busy, Pending
<1>7. ASSUME NEW p \in Providers, tidy'[p]
      PROVE  Kept(p)'
  <2>1. Kept(p) /\ ~unsaved[p]
    BY <1>2, <1>7 DEF KeptIInv, DiskIInv, KeptOK, DownIdle
  <2>2. Parses(p)' = Parses(p) /\ Loaded(p)' = Loaded(p)
    <3>1. path[p] # 0 => content'[path[p]] = content[path[p]]
      BY <1>1, <1>2, SweptKeeps, BoundsAssumption DEF Typed
    <3> QED
      BY <1>2, <3>1 DEF Parses, Loaded
  <2>3. FilesTidy(p)'
    BY <1>6, <2>1, <2>2 DEF FilesTidy, Kept
  <2>4. ~unsaved'[p] => RoutingKept(p)'
    BY <1>2, <1>6, <2>1, <2>2 DEF Kept, RoutingKept, IsLast, memory, Ahead
  <2>5. ASSUME PositiveWindows
        PROVE  QuotaKept(p)'
    <3> SUFFICES ASSUME NEW i \in DOMAIN Limits[p], NEW t \in Nat
                 PROVE  /\ GrantedBound(p, i, t)' /\ MemoryQuota(p, i, t)'
                        /\ FileQuota(p, i, t)' /\ HookQuota(p, i, t)'
      BY DEF QuotaKept
    <3>1. GrantedBound(p, i, t) /\ FileQuota(p, i, t)
      BY <2>1, <2>5 DEF Kept, QuotaKept
    <3>2. /\ Allowance(p, i)' = Allowance(p, i) + Cardinality(Pending(p, "windows"))
          /\ Granted(p, i, t)' = Granted(p, i, t) /\ Still(p, i, t)' = 0 /\ now' = now
      <4>1. Granted(p, i, t)' = Granted(p, i, t) /\ Still(p, i, t)' = 0 /\ now' = now
        BY <1>2 DEF Granted, Still
      <4>2. /\ lost'[p] = lost[p] + Cardinality(Pending(p, "windows")) /\ lost[p] \in Nat
            /\ Limits[p][i].requests * reloads \in Nat /\ reloads' = reloads
        BY <1>1, <1>2, LimitTypes DEF HistoryTyped, LimitConfig
      <4> QED
        BY <1>3, <4>1, <4>2 DEF Allowance
    <3>3. /\ Limits[p][i].requests \in Nat /\ Allowance(p, i) \in Nat
          /\ Granted(p, i, t) \in Nat /\ Still(p, i, t) \in Nat
          /\ CountAt(Loaded(p).windows, i, t) \in Nat
      <4>1. Loaded(p).windows \in Seq(Window)
        BY <1>1, LoadedType DEF States
      <4> QED
        BY <1>1, <4>1, QuotaTypes
    <3>4. CountAt(Loaded(p).windows, i, t)' = CountAt(Loaded(p).windows, i, t)
      BY <2>2 DEF CountAt
    <3>5. Cardinality(Pending(p, "windows"))' = 0
      BY <1>6, FS_EmptySet
    <3>6. GrantedBound(p, i, t)'
      BY <1>3, <3>1, <3>2, <3>3 DEF GrantedBound
    <3>7. FileQuota(p, i, t)'
      BY <1>3, <3>1, <3>2, <3>3, <3>4, <3>5 DEF FileQuota
    <3> QED
      BY <1>2, <1>6, <3>6, <3>7 DEF MemoryQuota, HookQuota
  <2> QED
    BY <1>2, <2>3, <2>4, <2>5 DEF Kept
<1>8. KeptOK'
  BY <1>7 DEF KeptOK
<1>9. InodesApart' /\ DownIdle' /\ now' >= 1
  BY <1>2, <1>5, <1>6 DEF KeptIInv, DiskIInv, InodesApart, DownIdle
<1> QED
  BY <1>1, <1>4, <1>8, <1>9 DEF KeptIInv, DiskIInv

\* Where the files are tidy or can be read all the same, a restart reads them.
LEMMA RestartReads ==
  ASSUME KeptIInv, OnlyCrashes
  PROVE  AllLoad
  BY DEF OnlyCrashes, AllLoad, KeptIInv, DiskIInv, KeptOK, Kept, FilesTidy

LEMMA RestartKept ==
  ASSUME KeptIInv, Restart
  PROVE  KeptIInv'
<1>1. IInv' /\ IInv /\ Typed /\ Typed' /\ HistoryTyped
  BY RestartIInv DEF KeptIInv, IInv
<1>2. /\ UNCHANGED <<now, saves, disk, lost, reloads, granted>>
      /\ ~up /\ up' /\ hooked' /\ unsaved' = [p \in Providers |-> FALSE]
      /\ tidy' = [p \in Providers |-> tidy[p] /\ OnlyCrashes]
  BY DEF Restart
<1>3. HistoryTyped'
  BY <1>1, <1>2 DEF HistoryTyped
<1>4. \A p \in Providers :
        /\ OfProvider(p) = {} /\ OfProvider(p)' = {} /\ Busy(p)' = {}
        /\ Pending(p, "routing") = {} /\ Pending(p, "windows") = {}
        /\ Pending(p, "routing")' = {} /\ Pending(p, "windows")' = {}
  BY <1>2 DEF KeptIInv, DiskIInv, DownIdle, OfProvider, Busy, Pending
<1>5. ASSUME NEW p \in Providers, tidy'[p]
      PROVE  Kept(p)'
  <2>1. Kept(p) /\ AllLoad
    BY <1>2, <1>5, RestartReads DEF KeptIInv, DiskIInv, KeptOK
  <2>2. Parses(p)' = Parses(p) /\ Loaded(p)' = Loaded(p) /\ Saved(p) = Loaded(p)
    BY <1>2, <2>1, DiskSame DEF Parses, Loaded, disk, Saved
  <2>3. FilesTidy(p)'
    BY <1>4, <2>1, <2>2 DEF FilesTidy, Kept
  <2>4. Loaded(p) \in States /\ now \in Nat /\ now' = now
    BY <1>1, <1>2, LoadedType DEF Typed
  <2>5. /\ blocked'[p] = Ahead(Loaded(p).blocked) /\ exhausted'[p] = Ahead(Loaded(p).exhausted)
        /\ windows'[p] = RestoredWindows(p, Loaded(p).windows)
    BY <2>2 DEF Restart
  <2>6. RoutingKept(p)'
    BY <1>4, <2>2, <2>4, <2>5 DEF RoutingKept, IsLast, Ahead, States
  <2>7. \A i \in DOMAIN Limits[p] :
          /\ RestoredWindows(p, Loaded(p).windows)' = RestoredWindows(p, Loaded(p).windows)
          /\ \/ windows'[p][i] = NewWindow
             \/ /\ i \in DOMAIN Loaded(p).windows
                /\ now < Loaded(p).windows[i].resetAt
                /\ windows'[p][i] = Loaded(p).windows[i]
          /\ i \in DOMAIN Loaded(p).windows /\ now < Loaded(p).windows[i].resetAt =>
               windows'[p][i] = Loaded(p).windows[i]
    BY <2>2, <2>4, <2>5 DEF RestoredWindows, Restore
  <2>8. WindowsKept(p)'
    <3>1. \A i \in DOMAIN Limits[p] :
            RestoredWindows(p, Loaded(p).windows)'[i] = AheadOf(windows[p][i])'
      BY <2>4, <2>5, <2>7 DEF AheadOf, NewWindow
    <3> QED
      BY <1>4, <3>1 DEF WindowsKept, IsLast
  <2>9. ASSUME PositiveWindows
        PROVE  QuotaKept(p)'
    <3> SUFFICES ASSUME NEW i \in DOMAIN Limits[p], NEW t \in Nat
                 PROVE  /\ GrantedBound(p, i, t)' /\ MemoryQuota(p, i, t)'
                        /\ FileQuota(p, i, t)' /\ HookQuota(p, i, t)'
      BY DEF QuotaKept
    <3>1. GrantedBound(p, i, t) /\ FileQuota(p, i, t)
      BY <2>1, <2>9 DEF Kept, QuotaKept
    <3>2. /\ Allowance(p, i)' = Allowance(p, i) /\ Granted(p, i, t)' = Granted(p, i, t)
          /\ Still(p, i, t)' = 0 /\ Still(p, i, t) = 0
          /\ CountAt(Loaded(p).windows, i, t)' = CountAt(Loaded(p).windows, i, t)
          /\ Cardinality(Pending(p, "windows")) = 0 /\ Cardinality(Pending(p, "windows"))' = 0
      BY <1>2, <1>4, <2>2, FS_EmptySet DEF Allowance, Granted, Still, CountAt
    <3>3. /\ Allowance(p, i) \in Nat /\ Granted(p, i, t) \in Nat
          /\ CountAt(Loaded(p).windows, i, t) \in Nat
      <4>1. Loaded(p).windows \in Seq(Window)
        BY <2>4 DEF States
      <4> QED
        BY <1>1, <4>1, QuotaTypes
    <3>4. GrantedBound(p, i, t)' /\ FileQuota(p, i, t)'
      BY <2>4, <3>1, <3>2 DEF GrantedBound, FileQuota
    <3>5. MemoryQuota(p, i, t)'
      <4> SUFFICES ASSUME now < t \/ (now = t /\ windows'[p][i].resetAt = t)
                   PROVE  Granted(p, i, t) <= CountAt(windows'[p], i, t) + Allowance(p, i)
        BY <2>4, <3>2 DEF MemoryQuota, CountAt
      <4>1. now < t
        BY <2>4, <2>7 DEF NewWindow, KeptIInv, DiskIInv
      <4>2. CountAt(windows'[p], i, t) = CountAt(Loaded(p).windows, i, t)
        <5>1. i \in DOMAIN windows'[p] /\ t # 0
          BY <2>4, <2>5, <4>1 DEF RestoredWindows
        <5> QED
          BY <2>7, <4>1, <5>1 DEF CountAt, NewWindow
      <4> QED
        BY <3>1, <3>2, <3>3, <4>1, <4>2 DEF FileQuota
    <3> QED
      BY <1>4, <3>4, <3>5 DEF HookQuota
  <2> QED
    BY <2>3, <2>6, <2>8, <2>9 DEF Kept
<1>6. KeptOK'
  BY <1>5 DEF KeptOK
<1>7. InodesApart' /\ DownIdle' /\ now' >= 1
  BY <1>2 DEF KeptIInv, DiskIInv, InodesApart, DownIdle, disk
<1> QED
  BY <1>1, <1>3, <1>6, <1>7 DEF KeptIInv, DiskIInv

LEMMA StutterKept ==
  ASSUME KeptIInv, UNCHANGED vars
  PROVE  KeptIInv'
<1>1. /\ UNCHANGED <<now, up, memory, hooked, saves, disk, history>>
      /\ IInv' /\ HistoryTyped' /\ Typed /\ Typed' /\ HistoryTyped
  BY NextIInv DEF vars, memory, disk, history, KeptIInv, IInv, HistoryTyped
<1>2. \A p \in Providers : SameHooks(p) /\ SameFiles(p)
  BY <1>1, DiskSame DEF SameHooks, OfProvider
<1>3. \A p \in Providers : SteadyMemory(p) /\ tidy' = tidy
  <2>1. HookFrame
    BY <1>1 DEF HookFrame, memory, history, HistoryTyped
  <2> QED
    BY <1>1, <2>1, HookFrameFacts DEF history
<1>4. KeptOK'
  BY <1>1, <1>2, <1>3, KeptSteady DEF KeptIInv, DiskIInv, KeptOK
<1>5. InodesApart' /\ DownIdle' /\ now' >= 1
  BY <1>1 DEF KeptIInv, DiskIInv, InodesApart, DownIdle, disk, history, OfProvider
<1> QED
  BY <1>1, <1>4, <1>5 DEF KeptIInv, DiskIInv

LEMMA InitKept == Init => KeptIInv
<1> SUFFICES ASSUME Init PROVE KeptIInv
  OBVIOUS
<1>1. IInv /\ Typed
  BY InitIInv DEF IInv
<1>2. HistoryTyped
  BY DEF Init, HistoryTyped
<1>3. \A p \in Providers :
        /\ OfProvider(p) = {} /\ Busy(p) = {}
        /\ Pending(p, "routing") = {} /\ Pending(p, "windows") = {}
  BY DEF Init, OfProvider, Busy, Pending
<1>4. \A p \in Providers : Parses(p) /\ Loaded(p) = NoState
  BY DEF Init, Parses, Loaded
<1>5. ASSUME NEW p \in Providers
      PROVE  Kept(p)
  <2>1. FilesTidy(p)
    BY <1>3, <1>4 DEF FilesTidy
  <2>2. RoutingKept(p)
    BY <1>3, <1>4 DEF RoutingKept, IsLast, NoState, Init
  <2>3. QuotaKept(p)
    <3> SUFFICES ASSUME NEW i \in DOMAIN Limits[p], NEW t \in Nat
                 PROVE  /\ GrantedBound(p, i, t) /\ MemoryQuota(p, i, t)
                        /\ FileQuota(p, i, t) /\ HookQuota(p, i, t)
      BY DEF QuotaKept
    <3>1. Granted(p, i, t) = 0 /\ Still(p, i, t) = 0 /\ ~up
      BY DEF Init, Granted, Still
    <3>2. /\ Allowance(p, i) \in Nat /\ Limits[p][i].requests \in Nat
          /\ CountAt(Loaded(p).windows, i, t) \in Nat
      <4>1. Loaded(p).windows \in Seq(Window)
        BY <1>1, LoadedType DEF States
      <4> QED
        BY <1>1, <1>2, <4>1, QuotaTypes
    <3>3. Cardinality(Pending(p, "windows")) = 0
      BY <1>3, FS_EmptySet
    <3> QED
      BY <1>3, <3>1, <3>2, <3>3 DEF GrantedBound, MemoryQuota, FileQuota, HookQuota
  <2> QED
    BY <2>1, <2>2, <2>3 DEF Kept, Init
<1>6. KeptOK
  BY <1>5 DEF KeptOK
<1>7. InodesApart /\ DownIdle /\ now >= 1
  BY <1>3 DEF Init, InodesApart, DownIdle
<1> QED
  BY <1>1, <1>2, <1>6, <1>7 DEF KeptIInv, DiskIInv

LEMMA NextKept == KeptIInv /\ [Next]_vars => KeptIInv'
<1> SUFFICES ASSUME KeptIInv, [Next]_vars PROVE KeptIInv'
  OBVIOUS
<1>1. CASE Crash \/ Restart \/ Reload \/ Tick
  BY <1>1, CrashKept, RestartKept, ReloadKept, TickKept
<1>2. CASE \E p \in Providers : \E d \in BlockFor : Block(p, d)
  BY <1>2, BlockKept
<1>3. ASSUME NEW p \in Providers, NEW i \in DOMAIN Limits[p],
             SetExhausted(p, now + Limits[p][i].window)
      PROVE  KeptIInv'
  <2>1. now + Limits[p][i].window \in Nat
    BY ResetTimes DEF KeptIInv, IInv
  <2> QED
    BY <1>3, <2>1, SetExhaustedKept
<1>4. CASE \E p \in Providers : Record(p)
  BY <1>4, RecordKept
<1>5. CASE \E s \in DOMAIN saves : Hook(s)
  BY <1>5, LoadFileKept, OpenTmpKept, WriteTmpKept, RenameTmpKept, RemoveTmpKept DEF Hook
<1>6. CASE UNCHANGED vars
  BY <1>6, StutterKept
<1> QED
  BY <1>1, <1>2, <1>3, <1>4, <1>5, <1>6 DEF Next

LEMMA KeptSuffices ==
  KeptIInv => SavedWhenIdle /\ (PositiveWindows => QuotaAcrossRestarts)
<1> SUFFICES ASSUME KeptIInv PROVE SavedWhenIdle /\ (PositiveWindows => QuotaAcrossRestarts)
  OBVIOUS
<1>1. SavedWhenIdle
  <2> SUFFICES ASSUME NEW p \in Providers, up, tidy[p], OfProvider(p) = {}
               PROVE
        /\ Parses(p)
        /\ Ahead(Loaded(p).blocked) = Ahead(blocked[p])
        /\ Ahead(Loaded(p).exhausted) = Ahead(exhausted[p])
        /\ hooked => \A i \in DOMAIN Limits[p] :
              RestoredWindows(p, Loaded(p).windows)[i] = AheadOf(windows[p][i])
    BY DEF SavedWhenIdle
  <2>1. Kept(p) /\ ~unsaved[p] /\ Pending(p, "routing") = {} /\ Pending(p, "windows") = {}
    BY DEF KeptIInv, DiskIInv, KeptOK, DownIdle, Pending
  <2> QED
    BY <2>1 DEF Kept, FilesTidy, RoutingKept, WindowsKept
<1>2. ASSUME PositiveWindows
      PROVE  QuotaAcrossRestarts
  <2> SUFFICES ASSUME NEW p \in Providers, tidy[p], NEW i \in DOMAIN Limits[p],
                      NEW t \in DOMAIN granted[p][i]
               PROVE  granted[p][i][t] <= Limits[p][i].requests * (1 + reloads) + lost[p]
    BY DEF QuotaAcrossRestarts
  <2>1. t \in Nat /\ Granted(p, i, t) = granted[p][i][t] /\ granted[p][i][t] \in Nat
    BY DEF KeptIInv, HistoryTyped, Granted
  <2>2. GrantedBound(p, i, t)
    BY <1>2, <2>1 DEF KeptIInv, DiskIInv, KeptOK, Kept, QuotaKept
  <2>3. /\ Limits[p][i].requests \in Nat /\ reloads \in Nat /\ lost[p] \in Nat
    BY LimitTypes DEF KeptIInv, HistoryTyped, LimitConfig
  <2>4. /\ Limits[p][i].requests * (1 + reloads)
             = Limits[p][i].requests + Limits[p][i].requests * reloads
        /\ Limits[p][i].requests * reloads \in Nat
    <3>1. \A m, n \in Nat : m * (1 + n) = m + m * n /\ m * n \in Nat
      OBVIOUS
    <3> QED
      BY <2>3, <3>1
  <2> QED
    BY <2>1, <2>2, <2>3, <2>4 DEF GrantedBound, Allowance
<1> QED
  BY <1>1, <1>2

LEMMA RestartSanctions ==
  KeptIInv /\ [Next]_vars =>
    (~up /\ up' /\ OnlyCrashes =>
        \A p \in Providers : tidy[p] /\ ~unsaved[p] =>
            /\ blocked'[p] = Ahead(blocked[p])
            /\ exhausted'[p] = Ahead(exhausted[p]))
<1> SUFFICES ASSUME KeptIInv, [Next]_vars, ~up, up', OnlyCrashes,
                    NEW p \in Providers, tidy[p], ~unsaved[p]
             PROVE  /\ blocked'[p] = Ahead(blocked[p])
                    /\ exhausted'[p] = Ahead(exhausted[p])
  OBVIOUS
<1>1. Restart
  BY DEF Next, vars, memory, Crash, Reload, Tick, Block, SetExhausted, Record, Hook,
         LoadFile, OpenTmp, WriteTmp, RenameTmp, RemoveTmp
<1>2. Kept(p) /\ Pending(p, "routing") = {} /\ Saved(p) = Loaded(p)
  BY RestartReads DEF KeptIInv, DiskIInv, KeptOK, DownIdle, Pending, Saved
<1> QED
  BY <1>1, <1>2 DEF Restart, Kept, RoutingKept

THEOREM KeptHolds == Spec => []KeptIInv
<1> QED
  BY InitKept, NextKept, PTL DEF Spec

\* Once the hooks of a provider have ended and none has disturbed another, its
\* file says what memory says of the future, after any number of crashes,
\* restarts and reloads (persistence.go:90-173, manager.go:79-107).
THEOREM IdleMeansSaved == Spec => []SavedWhenIdle
<1> QED
  BY KeptHolds, KeptSuffices, PTL

\* No restart forgets a block or an exhaustion that still lasts, unless the
\* crash has taken its save with it or a file was torn (main.go:84-105).
THEOREM SanctionsOutlive == Spec => SanctionsSurvive
<1> QED
  BY KeptHolds, RestartSanctions, PTL DEF SanctionsSurvive, Spec

\* If every window has a length, it lets through its number of requests, over
\* all the crashes and restarts that it outlives, and one more for each save
\* that a crash prevents; a reload starts it anew (tracker.go:156-243).
THEOREM QuotaOutlives ==
  ASSUME PositiveWindows
  PROVE  Spec => []QuotaAcrossRestarts
<1> QED
  BY KeptHolds, KeptSuffices, PTL

=============================================================================
