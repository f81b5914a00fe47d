----------------------------- MODULE Persistence -----------------------------
(***************************************************************************)
(* What survives a restart: the files .settings/providers/<id>.json of     *)
(* internal/state/persistence.go, the save hooks of state.Manager and      *)
(* limits.Tracker that write them, and main.go, which reads them back      *)
(* before it serves.                                                       *)
(*                                                                         *)
(* A hook runs as a goroutine of its own.  It reads the provider's file,   *)
(* replaces its own fields, writes everything to <id>.json.tmp and renames *)
(* that over the file; nothing orders the hooks of one provider, and all   *)
(* of them use the same temporary name.  A name refers to an inode, as the *)
(* file system has it: os.WriteFile truncates the inode that a name has    *)
(* already, and a writer goes on writing to its inode after a rename.      *)
(*                                                                         *)
(* Where a hook stands:                                                    *)
(*   start    spawned, has not read the file yet                           *)
(*   open     about to open the temporary file                             *)
(*   write    has opened (and truncated) it                                *)
(*   rename   has written it                                               *)
(*   remove   could not rename, about to remove the temporary file         *)
(*   done     ended, or gone with its process                              *)
(*                                                                         *)
(* The process may end at any time, also by main's return, which waits for *)
(* no hook.  The files then stay as they are: a power failure, which may   *)
(* also lose what was written but not synced, is not modelled.  A file is  *)
(* small enough to be read and to be written in one call.                  *)
(***************************************************************************)
EXTENDS Windows, FiniteSets

CONSTANTS
    Providers,
    Limits,       \* [Providers -> Seq(LimitConfig)], empty when no limit is set
    BlockFor,     \* recovery windows
    MaxTime,      \* bound on the clock
    MaxSaves,     \* bound on the hooks that are spawned
    MaxReloads    \* bound on the reloads

ASSUME LimitsAssumption == Limits \in [Providers -> Seq(LimitConfig)]
ASSUME BoundsAssumption ==
    BlockFor \subseteq Nat /\ MaxTime \in Nat /\ MaxSaves \in Nat /\ MaxReloads \in Nat

VARIABLES
    now,
    up,           \* the process runs and has restored its state
    blocked,      \* state.Manager: until when, 0 for never
    exhausted,
    windows,      \* limits.Tracker
    hooked,       \* the tracker in use has a save hook
    saves,        \* the hooks, in the order in which they were spawned
    path, tmp,    \* the inode of a provider's file and temporary file, 0 if none
    content,      \* of every inode; the inode a hook creates has its number
    held,         \* history: what memory has held
    tidy,         \* history: no hook of the provider was disturbed by another,
                  \*   and no restart met a file torn that way
    unsaved,      \* history: the last crash took a hook of state.Manager with it
    lost,         \* history: the hooks of the tracker that crashes took
    reloads,      \* history: the reloads so far
    granted       \* history: the requests let through, per window and its end

memory == <<blocked, exhausted, windows>>
disk == <<path, tmp, content>>
history == <<held, tidy, unsaved, lost, reloads, granted>>
vars == <<now, up, memory, hooked, saves, disk, history>>

-----------------------------------------------------------------------------
(* Files *)

\* What a file can hold: a whole state, nothing, or what cannot be parsed.
NoState == [blocked |-> 0, exhausted |-> 0, windows |-> <<>>]
Whole(state) == [text |-> "whole", state |-> state]
Empty == [text |-> "empty", state |-> NoState]
Torn == [text |-> "torn", state |-> NoState]

\* LoadProviderState: no file means an empty state, and what cannot be parsed
\* is an error.
Parses(p) == path[p] # 0 => content[path[p]].text = "whole"
Loaded(p) == IF path[p] # 0 /\ Parses(p) THEN content[path[p]].state ELSE NoState

\* Mutant: a zero time leaves the field as it is.
MergedNonZero(save, state) ==
    IF save.kind = "windows" THEN [state EXCEPT !.windows = save.windows]
    ELSE [state EXCEPT !.blocked = IF save.blocked = 0 THEN @ ELSE save.blocked,
                       !.exhausted = IF save.exhausted = 0 THEN @ ELSE save.exhausted]

\* Mutant: the state is built anew instead of read from the file.
MergedFresh(save, state) ==
    IF save.kind = "windows" THEN [NoState EXCEPT !.windows = save.windows]
    ELSE [NoState EXCEPT !.blocked = save.blocked, !.exhausted = save.exhausted]

\* UpdateRoutingState and UpdateLimitWindows replace their own fields.
Merged(save, state) ==
    IF save.kind = "windows" THEN [state EXCEPT !.windows = save.windows]
    ELSE [state EXCEPT !.blocked = save.blocked, !.exhausted = save.exhausted]

\* A write to an inode that another hook has written since it was truncated
\* leaves the rest of what is longer.
AfterWrite(old, state) ==
    IF old \in {Empty, Whole(state)} THEN {Whole(state)} ELSE {Whole(state), Torn}

-----------------------------------------------------------------------------
(* Memory, and the hooks it spawns *)

Init ==
    /\ now = 1
    /\ up = FALSE
    /\ blocked = [p \in Providers |-> 0]
    /\ exhausted = [p \in Providers |-> 0]
    /\ windows = [p \in Providers |-> EnsureWindows(Limits[p])]
    /\ hooked = TRUE
    /\ saves = <<>>
    /\ path = [p \in Providers |-> 0]
    /\ tmp = [p \in Providers |-> 0]
    /\ content = [i \in 1..MaxSaves |-> Empty]
    /\ held = [p \in Providers |-> [routing |-> {<<0, 0>>}, windows |-> {<<>>}]]
    /\ tidy = [p \in Providers |-> TRUE]
    /\ unsaved = [p \in Providers |-> FALSE]
    /\ lost = [p \in Providers |-> 0]
    /\ reloads = 0
    /\ granted = [p \in Providers |-> [i \in DOMAIN Limits[p] |-> [t \in {} |-> 0]]]

\* Everything memory has held from now on includes what it holds next.
Remember(p) ==
    held' = [held EXCEPT ![p] =
        [routing |-> @.routing \cup {<<blocked'[p], exhausted'[p]>>},
         windows |-> @.windows \cup {windows'[p]}]]

\* go hook(...), with what was read under the lock.
Spawn(save) == saves' = Append(saves, save)

RoutingSave(p, bu, eu) ==
    [provider |-> p, kind |-> "routing", blocked |-> bu, exhausted |-> eu,
     windows |-> <<>>, pc |-> "start", draft |-> NoState, fd |-> 0]

\* Mutant: the windows are copied before they are charged.
WindowsSaveEarly(p, ws) ==
    [RoutingSave(p, 0, 0) EXCEPT !.kind = "windows", !.windows = windows[p]]

WindowsSave(p, ws) ==
    [RoutingSave(p, 0, 0) EXCEPT !.kind = "windows", !.windows = ws]

Block(p, d) ==
    /\ up
    /\ Len(saves) < MaxSaves
    /\ blocked' = [blocked EXCEPT ![p] = now + d]
    /\ Spawn(RoutingSave(p, now + d, exhausted[p]))
    /\ UNCHANGED <<exhausted, windows>>
    /\ Remember(p)
    /\ UNCHANGED <<now, up, hooked, disk, tidy, unsaved, lost, reloads, granted>>

SetExhausted(p, resetAt) ==
    /\ up
    /\ Len(saves) < MaxSaves
    /\ exhausted' = [exhausted EXCEPT ![p] = resetAt]
    /\ Spawn(RoutingSave(p, blocked[p], resetAt))
    /\ UNCHANGED <<blocked, windows>>
    /\ Remember(p)
    /\ UNCHANGED <<now, up, hooked, disk, tidy, unsaved, lost, reloads, granted>>

\* One more request for each of the windows.
Grant(p) ==
    granted' = [granted EXCEPT ![p] = [i \in DOMAIN Limits[p] |->
        LET end == windows'[p][i].resetAt
            g == @[i]
        IN  [t \in DOMAIN g \cup {end} |->
                (IF t \in DOMAIN g THEN g[t] ELSE 0) + (IF t = end THEN 1 ELSE 0)]]]

Record(p) ==
    LET ws == ChargeAll(windows[p], Limits[p], now)
    IN  /\ up
        /\ Limits[p] # <<>>
        /\ Len(saves) < MaxSaves
        /\ \A i \in DOMAIN ws : ws[i].count <= Limits[p][i].requests + 1
        /\ windows' = [windows EXCEPT ![p] = ws]
        /\ \/ hooked /\ Spawn(WindowsSave(p, ws))
           \/ ~hooked /\ UNCHANGED saves
        /\ \/ Over(ws, Limits[p]) = {} /\ Grant(p)
           \/ Over(ws, Limits[p]) # {} /\ UNCHANGED granted
        /\ UNCHANGED <<blocked, exhausted>>
        /\ Remember(p)
        /\ UNCHANGED <<now, up, hooked, disk, tidy, unsaved, lost, reloads>>

\* A reload replaces the tracker, and gives the new one no save hook.
Reload ==
    /\ up
    /\ reloads < MaxReloads
    /\ reloads' = reloads + 1
    /\ windows' = [p \in Providers |-> EnsureWindows(Limits[p])]
    /\ hooked' = FALSE
    /\ UNCHANGED <<now, up, blocked, exhausted, saves, disk, held, tidy, unsaved,
                   lost, granted>>

-----------------------------------------------------------------------------
(* The hooks, system call by system call *)

At(s, pc) == s \in DOMAIN saves /\ saves[s].pc = pc

OfProvider(p) == {s \in DOMAIN saves : saves[s].provider = p /\ saves[s].pc # "done"}

Goto(s, pc) == saves' = [saves EXCEPT ![s].pc = pc]

\* What is left of a hook, and of inodes that nothing refers to any more.
Ended(s) == [RoutingSave(saves[s].provider, 0, 0) EXCEPT !.pc = "done"]
InUse(i) ==
    \/ \E p \in Providers : path'[p] = i \/ tmp'[p] = i
    \/ \E s \in DOMAIN saves' : saves'[s].fd = i
Swept == [i \in DOMAIN content |-> IF InUse(i) THEN content[i] ELSE Empty]

\* A hook comes too early for an older one of its kind, or between the steps of
\* another.
Disturbs(s) ==
    \E o \in OfProvider(saves[s].provider) \ {s} :
        \/ saves[o].pc # "start"
        \/ o < s /\ saves[o].kind = saves[s].kind

\* A file that cannot be parsed is taken for an empty state.
LoadFile(s) ==
    LET save == saves[s]
    IN  /\ At(s, "start")
        /\ saves' = [saves EXCEPT ![s].pc = "open",
                                  ![s].draft = Merged(save, Loaded(save.provider))]
        /\ tidy' = [tidy EXCEPT ![save.provider] = @ /\ ~Disturbs(s)]
        /\ UNCHANGED <<now, up, memory, hooked, disk, held, unsaved, lost, reloads,
                       granted>>

\* Mutant: the file itself is written, without a temporary one.
OpenInPlace(s) ==
    LET p == saves[s].provider
        inode == IF path[p] = 0 THEN s ELSE path[p]
    IN  /\ At(s, "open")
        /\ path' = [path EXCEPT ![p] = inode]
        /\ content' = [content EXCEPT ![inode] = Empty]
        /\ saves' = [saves EXCEPT ![s].pc = "write", ![s].fd = inode]
        /\ UNCHANGED <<now, up, memory, hooked, tmp, history>>

\* os.WriteFile: O_CREATE|O_TRUNC.
OpenTmp(s) ==
    LET p == saves[s].provider
        inode == IF tmp[p] = 0 THEN s ELSE tmp[p]
    IN  /\ At(s, "open")
        /\ tmp' = [tmp EXCEPT ![p] = inode]
        /\ content' = [content EXCEPT ![inode] = Empty]
        /\ saves' = [saves EXCEPT ![s].pc = "write", ![s].fd = inode]
        /\ UNCHANGED <<now, up, memory, hooked, path, history>>

WriteTmp(s) ==
    /\ At(s, "write")
    /\ \E c \in AfterWrite(content[saves[s].fd], saves[s].draft) :
        content' = [content EXCEPT ![saves[s].fd] = c]
    /\ Goto(s, "rename")
    /\ UNCHANGED <<now, up, memory, hooked, path, tmp, history>>

\* The rename takes whatever has the temporary name by now; another hook may
\* have taken it away.
RenameTmp(s) ==
    LET p == saves[s].provider
    IN  /\ At(s, "rename")
        /\ \/ /\ tmp[p] # 0
              /\ path' = [path EXCEPT ![p] = tmp[p]]
              /\ tmp' = [tmp EXCEPT ![p] = 0]
              /\ saves' = [saves EXCEPT ![s] = Ended(s)]
           \/ /\ tmp[p] = 0
              /\ Goto(s, "remove")
              /\ UNCHANGED <<path, tmp>>
        /\ content' = Swept
        /\ UNCHANGED <<now, up, memory, hooked, history>>

RemoveTmp(s) ==
    /\ At(s, "remove")
    /\ tmp' = [tmp EXCEPT ![saves[s].provider] = 0]
    /\ saves' = [saves EXCEPT ![s] = Ended(s)]
    /\ UNCHANGED path
    /\ content' = Swept
    /\ UNCHANGED <<now, up, memory, hooked, history>>

Hook(s) == LoadFile(s) \/ OpenTmp(s) \/ WriteTmp(s) \/ RenameTmp(s) \/ RemoveTmp(s)

-----------------------------------------------------------------------------
(* Crash and restart *)

Pending(p, kind) == {s \in OfProvider(p) : saves[s].kind = kind}

\* The process ends.  Until the restart, the variables of memory say what it
\* held; nothing but the properties reads them.
Crash ==
    /\ up
    /\ up' = FALSE
    /\ unsaved' = [p \in Providers |-> Pending(p, "routing") # {}]
    /\ lost' = [p \in Providers |-> lost[p] + Cardinality(Pending(p, "windows"))]
    /\ saves' = [s \in DOMAIN saves |-> Ended(s)]
    /\ UNCHANGED <<path, tmp>>
    /\ content' = Swept
    /\ UNCHANGED <<now, memory, hooked, held, tidy, reloads, granted>>

\* LoadAllProviderStates: one file that cannot be parsed, and nothing is loaded.
AllLoad == \A p \in Providers : Parses(p)

Saved(p) == IF AllLoad THEN Loaded(p) ELSE NoState

\* A time that has passed is not restored.
Ahead(t) == IF now < t THEN t ELSE 0

\* Mutant: as many windows as were saved.
RestoredAsSaved(p, saved) == [i \in DOMAIN saved |-> Restore(NewWindow, saved[i], now)]

RestoredWindows(p, saved) ==
    [i \in DOMAIN Limits[p] |->
        IF i \in DOMAIN saved THEN Restore(NewWindow, saved[i], now) ELSE NewWindow]

\* No file is torn because hooks disturbed one another.
OnlyCrashes == \A p \in Providers : tidy[p] \/ Parses(p)

Restart ==
    /\ ~up
    /\ up' = TRUE
    /\ hooked' = TRUE
    /\ blocked' = [p \in Providers |-> Ahead(Saved(p).blocked)]
    /\ exhausted' = [p \in Providers |-> Ahead(Saved(p).exhausted)]
    /\ windows' = [p \in Providers |-> RestoredWindows(p, Saved(p).windows)]
    /\ held' = [p \in Providers |->
          [routing |-> held[p].routing \cup {<<blocked'[p], exhausted'[p]>>},
           windows |-> held[p].windows \cup {windows'[p]}]]
    /\ tidy' = [p \in Providers |-> tidy[p] /\ OnlyCrashes]
    /\ unsaved' = [p \in Providers |-> FALSE]
    /\ UNCHANGED <<now, saves, disk, lost, reloads, granted>>

\* The history of a window ends with it.
Tick ==
    /\ now < MaxTime
    /\ now' = now + 1
    /\ granted' = [p \in Providers |-> [i \in DOMAIN Limits[p] |->
          [t \in {u \in DOMAIN granted[p][i] : u > now} |-> granted[p][i][t]]]]
    /\ UNCHANGED <<up, memory, hooked, saves, disk, held, tidy, unsaved, lost, reloads>>

Next ==
    \/ Crash \/ Restart \/ Reload \/ Tick
    \/ \E p \in Providers :
        \/ \E d \in BlockFor : Block(p, d)
        \/ \E i \in DOMAIN Limits[p] : SetExhausted(p, now + Limits[p][i].window)
        \/ Record(p)
    \/ \E s \in DOMAIN saves : Hook(s)

Spec == Init /\ [][Next]_vars
-----------------------------------------------------------------------------
(* Properties *)

States == [blocked : Nat, exhausted : Nat, windows : Seq(Window)]

Steps == {"start", "open", "write", "rename", "remove", "done"}

TypeOK ==
    /\ now \in Nat /\ up \in BOOLEAN /\ hooked \in BOOLEAN
    /\ blocked \in [Providers -> Nat] /\ exhausted \in [Providers -> Nat]
    /\ DOMAIN windows = Providers
    /\ \A p \in Providers : windows[p] \in [DOMAIN Limits[p] -> Window]
    /\ \A s \in DOMAIN saves :
        /\ saves[s].pc \in Steps /\ saves[s].draft \in States
        /\ saves[s].pc \in {"write", "rename"} => saves[s].fd # 0
    /\ path \in [Providers -> 0..MaxSaves] /\ tmp \in [Providers -> 0..MaxSaves]
    /\ \A i \in 1..MaxSaves : content[i].text \in {"whole", "empty", "torn"} /\ content[i].state \in States

\* Whatever the hooks do to one another, a file that can be read holds what
\* memory has held: the two times of a provider at one moment, and its windows
\* at one moment (manager.go:79-107, tracker.go:236-240).
NothingInvented ==
    \A p \in Providers : Parses(p) =>
        /\ <<Loaded(p).blocked, Loaded(p).exhausted>> \in held[p].routing
        /\ Loaded(p).windows \in held[p].windows

AheadOf(w) == IF now < w.resetAt THEN w ELSE NewWindow

\* Once its hooks have ended, a file says what memory says of the future, as
\* long as no hook has disturbed another and the tracker still has its hook; a
\* crash in the middle of a save does not count as a disturbance.
SavedWhenIdle ==
    \A p \in Providers : up /\ tidy[p] /\ OfProvider(p) = {} =>
        /\ Parses(p)
        /\ Ahead(Loaded(p).blocked) = Ahead(blocked[p])
        /\ Ahead(Loaded(p).exhausted) = Ahead(exhausted[p])
        /\ hooked => \A i \in DOMAIN Limits[p] :
              RestoredWindows(p, Loaded(p).windows)[i] = AheadOf(windows[p][i])

\* A window lets through its number of requests over all restarts, and one more
\* for each save that a crash prevents.  A reload starts it anew.
QuotaAcrossRestarts ==
    \A p \in Providers : tidy[p] =>
        \A i \in DOMAIN Limits[p] : \A t \in DOMAIN granted[p][i] :
            granted[p][i][t] <= Limits[p][i].requests * (1 + reloads) + lost[p]

\* A restart forgets no block and no exhaustion that still lasts, unless the
\* crash has taken its save with it, or disturbed hooks have left a file, be it
\* another provider's, that cannot be parsed (main.go:84-105).
SanctionsSurvive ==
    [][~up /\ up' /\ OnlyCrashes =>
        \A p \in Providers : tidy[p] /\ ~unsaved[p] =>
            /\ blocked'[p] = Ahead(blocked[p])
            /\ exhausted'[p] = Ahead(exhausted[p])]_vars

\* persistence.go:90: "SaveProviderState saves a provider's state to disk
\* atomically".
SavedAtomically == \A p \in Providers : Parses(p)
=============================================================================
