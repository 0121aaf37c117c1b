-------------------------------- MODULE Emds --------------------------------
(***************************************************************************)
(* The emergency data storage: subsys/emds/emds.c (the entries and the    *)
(* public calls) over subsys/emds/emds_flash.c (the flash layout).  Data  *)
(* grow from the start of the area, allocation table entries (ATEs) from  *)
(* its end; a store writes, for every entry, its data and then its ATE.   *)
(*                                                                         *)
(* The flash is an array of write blocks.  Every step programs one block  *)
(* or erases one sector, and the power may be lost between any two steps. *)
(* Addresses are relative to fs->offset.                                   *)
(***************************************************************************)
EXTENDS Integers, Sequences

CONSTANTS
    Size,           \* blocks in the area: sector_cnt * sector_size
    SectorSize,     \* blocks erased together
    AteSize,        \* blocks of one ATE: fs->ate_size
    OffsMod,        \* range of the 16-bit offset of an ATE, in blocks
    Static,         \* ids of the EMDS_STATIC_ENTRY_DEFINE entries, in order
    DynamicIds,     \* ids the application passes to emds_entry_add
    Blocks,         \* Blocks[id]: blocks of the data of entry id
    InitialFlashes, \* contents of the area when the device is first started
    WhileReady,     \* whether emds_prepare and emds_clear are called while
                    \* emds_is_ready()
    FlashFailsIn,   \* the calls in which a flash_write or flash_erase may fail
    MaxStores,      \* bound: stores
    MaxReboots      \* bound: power losses

Ids == {Static[i] : i \in DOMAIN Static} \cup DynamicIds

-----------------------------------------------------------------------------
(* Blocks.  A data block carries the entry, the store that wrote it and    *)
(* its index; an ATE block carries the entry, the CRC of its data (the     *)
(* store stands for the contents), the offset and length of its data and   *)
(* its index.  The CRCs tell every two different contents apart.           *)
Clobbered == -1
Contents == Nat \cup {Clobbered}
Block == [kind : {"erased", "zero", "junk", "clash", "data", "ate"},
          id : Nat, store : Contents, at : Nat, len : Nat, word : Nat]
Plain(kind) ==
    [kind |-> kind, id |-> 0, store |-> 0, at |-> 0, len |-> 0, word |-> 0]
Erased == Plain("erased")
Zero == Plain("zero")
Clash == Plain("clash")
DataBlock(id, store, word) ==
    [kind |-> "data", id |-> id, store |-> store, at |-> 0, len |-> 0, word |-> word]
AteBlock(id, store, at, len, word) ==
    [kind |-> "ate", id |-> id, store |-> store, at |-> at, len |-> len, word |-> word]

\* Programming only clears bits: zeros over anything are zeros, and any
\* other contents over a block that is not erased are neither of the two.
Program(old, new) == IF old = Erased \/ new = Zero THEN new ELSE Clash

Addresses == 0 .. Size - 1

ASSUME EmdsAssumption ==
    /\ Size \in Nat /\ SectorSize \in Nat \ {0} /\ AteSize \in Nat \ {0}
    /\ Size > AteSize /\ Size % AteSize = 0 /\ Size % SectorSize = 0
    /\ OffsMod \in Nat \ {0}
    /\ Static \in Seq(Nat) /\ DynamicIds \subseteq Nat
    /\ Blocks \in [Ids -> Nat]
    /\ MaxStores \in Nat /\ MaxReboots \in Nat
    /\ WhileReady \in BOOLEAN
    /\ FlashFailsIn \subseteq {"invalidate", "erase", "clear"}
    /\ InitialFlashes \subseteq [Addresses -> Block]
    /\ \A f \in InitialFlashes : \A a \in Addresses : f[a].kind # "clash"

VARIABLES
    flash,            \* [Addresses -> Block]: the only state that survives
    fs,               \* struct emds_fs
    emds_ready, emds_initialized, emds_dynamic_entries,
    ram,              \* the data of the entries: 0 as defined at start up,
                      \* n as store n wrote it, Clobbered as a read whose
                      \* CRC check failed left it
    thread, cursor,   \* the call in progress and the block it is at
    isr, todo, block, \* emds_store: phase, entries left, block of the entry
    stores,           \* the number of stores begun
    stored,           \* ids the last store was to save, once it is complete
                      \* and until emds_prepare or emds_clear deletes its
                      \* data: all but one whose emds_entry_add it interrupted
    clear_cut,        \* an emds_clear was cut short since the last store
    reboots

flash_vars == <<flash, fs>>
call_vars == <<thread, cursor>>
store_vars == <<isr, todo, block, stores>>
ghost_vars == <<stored, clear_cut, reboots>>
emds_vars == <<flash, fs, emds_ready, emds_initialized, emds_dynamic_entries,
               ram, thread, cursor, isr, todo, block, stores, stored,
               clear_cut, reboots>>

EmptyFs == [ate_wra |-> 0, data_wra_offset |-> 0, force_erase |-> FALSE,
            is_prepeared |-> FALSE]

-----------------------------------------------------------------------------
(* Reading the flash.                                                      *)
Words == 0 .. AteSize - 1
AteAddrs == {a \in 0 .. Size - AteSize : a % AteSize = 0}

ate_check(f, a) ==
    CASE \A w \in Words : f[a + w] = Zero -> "INVALIDATED"
      [] \A w \in Words : f[a + w] = Erased -> "ERASED"
      [] f[a].kind = "ate" /\ \A w \in Words : f[a + w] = [f[a] EXCEPT !.word = w]
            -> "VALID"
      [] OTHER -> "UNKNOWN"

check_erased(f, from, to) == \A a \in Addresses : from <= a /\ a < to => f[a] = Erased

\* Where the walk down the ATEs stops: the first one that is erased.
LastAtes(f) ==
    LET erased == {a \in AteAddrs : ate_check(f, a) = "ERASED"}
    IN  {a \in erased : \A b \in erased : b <= a}

\* Where the data end: after those of the last valid ATE of the walk.
DataEnds(f) ==
    LET valid == {a \in AteAddrs : /\ ate_check(f, a) = "VALID"
                                   /\ \A stop \in LastAtes(f) : a > stop}
    IN  IF valid = {} THEN {0}
        ELSE {f[a].at + f[a].len : a \in {v \in valid : \A w \in valid : v <= w}}

\* An ATE that the walk does not expect: an unknown one, or an invalidated
\* one after a valid one.
Unexpected(f, stop) ==
    \E a \in AteAddrs :
        /\ a > stop
        /\ \/ ate_check(f, a) = "UNKNOWN"
           \/ /\ ate_check(f, a) = "INVALIDATED"
              /\ \E b \in AteAddrs : b > a /\ ate_check(f, b) = "VALID"

\* Mutant: the area below the ATEs is not checked to be erased.
RecoverAtUnchecked(f, s, ate_wra, data_wra_offset) ==
    [s EXCEPT !.ate_wra = ate_wra,
              !.data_wra_offset = data_wra_offset,
              !.force_erase = @ \/ Unexpected(f, ate_wra)]

RecoverAt(f, s, ate_wra, data_wra_offset) ==
    [s EXCEPT !.ate_wra = ate_wra,
              !.data_wra_offset = data_wra_offset,
              !.force_erase = \/ @
                              \/ Unexpected(f, ate_wra)
                              \/ data_wra_offset > ate_wra + AteSize
                              \/ ~check_erased(f, data_wra_offset, ate_wra + AteSize)]

\* ate_last_recover: its one result, as a singleton.  It leaves
\* is_prepeared alone, and never takes force_erase back.
ate_last_recover(f, s) ==
    IF LastAtes(f) = {}
    THEN {[s EXCEPT !.ate_wra = 0, !.data_wra_offset = 0, !.force_erase = TRUE]}
    ELSE {RecoverAt(f, s, a, d) : a \in LastAtes(f), d \in DataEnds(f)}

\* Mutant: the blocks already written are not subtracted.
FreeSpaceWhole(s) == Size - AteSize

emds_flash_free_space_get(s) ==
    LET space == s.ate_wra - s.data_wra_offset
    IN  IF space > AteSize THEN space ELSE 0

\* emds_flash_read: the newest valid ATE of the entry; 0 stands for -ENXIO.
emds_flash_read(f, s, id) ==
    LET found == {a \in AteAddrs : /\ a >= s.ate_wra
                                   /\ ate_check(f, a) = "VALID"
                                   /\ f[a].id = id}
        newest == CHOOSE a \in found : \A b \in found : a <= b
        ate == f[newest]
    IN  IF found = {} THEN 0
        ELSE IF \A w \in 0 .. ate.len - 1 :
                    f[ate.at + w] = DataBlock(id, ate.store, w)
             THEN ate.store
             ELSE Clobbered

Registered == {Static[i] : i \in DOMAIN Static}
              \cup {emds_dynamic_entries[i] : i \in DOMAIN emds_dynamic_entries}

\* The entries that emds_ready speaks for: a dynamic one only once its
\* emds_entry_add has taken emds_ready back.
Reserved ==
    IF thread = "add"
    THEN SubSeq(emds_dynamic_entries, 1, Len(emds_dynamic_entries) - 1)
    ELSE emds_dynamic_entries
Promised == {Static[i] : i \in DOMAIN Static} \cup {Reserved[i] : i \in DOMAIN Reserved}

\* The blocks that a store of the last n of the entries takes.
SizeOfLast(entries) ==
    LET size[n \in 0 .. Len(entries)] ==
            IF n = 0 THEN 0
            ELSE Blocks[entries[Len(entries) - n + 1]] + AteSize + size[n - 1]
    IN  size

emds_entries_size(dynamic) ==
    LET entries == Static \o dynamic IN SizeOfLast(entries)[Len(entries)]

\* A store of the entries fits into that many blocks.
Fits(space) == emds_entries_size(emds_dynamic_entries) <= space

-----------------------------------------------------------------------------
EmdsInit ==
    /\ flash \in InitialFlashes
    /\ fs = EmptyFs
    /\ emds_ready = FALSE /\ emds_initialized = FALSE
    /\ emds_dynamic_entries = <<>>
    /\ ram = [id \in Ids |-> 0]
    /\ thread = "idle" /\ cursor = 0
    /\ isr = "off" /\ todo = <<>> /\ block = 0
    /\ stores = 0 /\ stored = {} /\ clear_cut = FALSE /\ reboots = 0

\* The thread runs only while no store does: a store locks the interrupts.
ThreadAt(pc) == thread = pc /\ isr = "off"

\* The public calls check emds_initialized first, and return at once if not.
CallBegins == ThreadAt("idle") /\ emds_initialized

emds_init ==
    /\ ThreadAt("idle") /\ ~emds_initialized
    /\ fs' \in ate_last_recover(flash, EmptyFs)
    /\ emds_dynamic_entries' = <<>>
    /\ emds_initialized' = TRUE
    /\ UNCHANGED <<flash, emds_ready, ram, call_vars, store_vars, ghost_vars>>

\* The new entry is in the list before emds_ready is taken back.  An id that
\* was added already is refused; the static ones are not looked at.
emds_entry_add(id) ==
    /\ CallBegins
    /\ \A i \in DOMAIN emds_dynamic_entries : emds_dynamic_entries[i] # id
    /\ emds_dynamic_entries' = Append(emds_dynamic_entries, id)
    /\ thread' = "add"
    /\ UNCHANGED <<flash_vars, emds_ready, emds_initialized, ram, cursor,
                   store_vars, ghost_vars>>

\* Mutant: an entry is added to a prepared area.
EntryAddKeepsReady ==
    /\ ThreadAt("add")
    /\ thread' = "idle"
    /\ UNCHANGED <<flash_vars, emds_ready, emds_initialized,
                   emds_dynamic_entries, ram, cursor, store_vars, ghost_vars>>

EntryAddReturns ==
    /\ ThreadAt("add")
    /\ emds_ready' = FALSE
    /\ thread' = "idle"
    /\ UNCHANGED <<flash_vars, emds_initialized, emds_dynamic_entries, ram,
                   cursor, store_vars, ghost_vars>>

\* Errors are logged, and the load goes on; what emds_flash_read has copied
\* when its CRC check fails stays in the entry.
emds_load ==
    /\ CallBegins
    /\ ram' = [id \in Ids |->
                  IF id \in Registered /\ emds_flash_read(flash, fs, id) # 0
                  THEN emds_flash_read(flash, fs, id) ELSE ram[id]]
    /\ UNCHANGED <<flash_vars, emds_ready, emds_initialized,
                   emds_dynamic_entries, call_vars, store_vars, ghost_vars>>

-----------------------------------------------------------------------------
(* emds_prepare: invalidate the old ATEs, upwards from the newest; erase   *)
(* the area if it must be or is too full.                                  *)
MayDelete == CallBegins /\ (WhileReady \/ ~emds_ready)

\* Mutant: the newest ATE is not invalidated.
SecondOldAte == fs.ate_wra + 2 * AteSize

FirstOldAte == fs.ate_wra + AteSize

emds_prepare ==
    /\ MayDelete
    /\ Fits(Size - AteSize)
    /\ thread' = "invalidate" /\ cursor' = FirstOldAte
    /\ stored' = {}
    /\ UNCHANGED <<flash_vars, emds_ready, emds_initialized,
                   emds_dynamic_entries, ram, store_vars, clear_cut, reboots>>

old_entries_invalidate ==
    /\ ThreadAt("invalidate") /\ cursor < Size
    /\ flash' = [flash EXCEPT ![cursor] = Program(@, Zero)]
    /\ cursor' = cursor + 1
    /\ UNCHANGED <<fs, emds_ready, emds_initialized, emds_dynamic_entries,
                   ram, thread, store_vars, ghost_vars>>

\* flash_write fails: emds_prepare returns the error.
InvalidateFails ==
    /\ ThreadAt("invalidate") /\ cursor < Size /\ thread \in FlashFailsIn
    /\ thread' = "idle"
    /\ UNCHANGED <<flash_vars, emds_ready, emds_initialized,
                   emds_dynamic_entries, ram, cursor, store_vars, ghost_vars>>

\* The end of emds_flash_prepare and of emds_prepare.
PrepareReturns(f) ==
    /\ fs' = [f EXCEPT !.is_prepeared = TRUE]
    /\ emds_ready' = TRUE
    /\ thread' = "idle"

MustErase == fs.force_erase \/ ~Fits(emds_flash_free_space_get(fs))

emds_flash_prepare ==
    /\ ThreadAt("invalidate") /\ cursor >= Size
    /\ IF MustErase
       THEN /\ thread' = "erase" /\ cursor' = 0
            /\ UNCHANGED <<fs, emds_ready>>
       ELSE /\ PrepareReturns(fs)
            /\ UNCHANGED cursor
    /\ UNCHANGED <<flash, emds_initialized, emds_dynamic_entries, ram,
                   store_vars, ghost_vars>>

emds_clear ==
    /\ MayDelete
    /\ thread' = "clear" /\ cursor' = 0
    /\ stored' = {}
    /\ UNCHANGED <<flash_vars, emds_ready, emds_initialized,
                   emds_dynamic_entries, ram, store_vars, clear_cut, reboots>>

\* flash_erase, one sector at a time.
EraseSector ==
    /\ ThreadAt("erase") \/ ThreadAt("clear")
    /\ cursor < Size
    /\ flash' = [a \in Addresses |->
                    IF cursor <= a /\ a < cursor + SectorSize THEN Erased ELSE flash[a]]
    /\ cursor' = cursor + SectorSize
    /\ UNCHANGED <<fs, emds_ready, emds_initialized, emds_dynamic_entries,
                   ram, thread, store_vars, ghost_vars>>

\* The end of emds_flash_clear, s being what it makes of fs; emds_prepare
\* goes on whatever it returns, and takes force_erase back.
EraseReturns(s, failed) ==
    \/ /\ ThreadAt("erase")
       /\ PrepareReturns([s EXCEPT !.force_erase = FALSE])
       /\ UNCHANGED clear_cut
    \/ /\ ThreadAt("clear")
       /\ fs' = s /\ thread' = "idle" /\ clear_cut' = (clear_cut \/ failed)
       /\ UNCHANGED emds_ready

emds_flash_clear ==
    /\ cursor >= Size
    /\ check_erased(flash, 0, Size)
    /\ \E s \in ate_last_recover(flash, fs) : EraseReturns(s, FALSE)
    /\ UNCHANGED <<flash, emds_initialized, emds_dynamic_entries, ram, cursor,
                   store_vars, stored, reboots>>

\* flash_erase fails: fs is not recovered.
EraseFails ==
    /\ cursor < Size /\ thread \in FlashFailsIn
    /\ EraseReturns(fs, TRUE)
    /\ UNCHANGED <<flash, emds_initialized, emds_dynamic_entries, ram, cursor,
                   store_vars, stored, reboots>>

-----------------------------------------------------------------------------
(* emds_store, from the thread before a planned reboot, or from the power  *)
(* failure interrupt at any point of a call, after which the device halts. *)
(* The application has changed the data since the last store.              *)
emds_store(emergency) ==
    /\ isr = "off" /\ (emergency \/ thread = "idle")
    /\ emds_ready
    /\ stores < MaxStores
    /\ isr' = IF emergency THEN "last" ELSE "planned"
    /\ todo' = Static \o emds_dynamic_entries
    /\ block' = 0
    /\ stores' = stores + 1
    /\ ram' = [id \in Ids |-> IF id \in Registered THEN stores + 1 ELSE ram[id]]
    /\ stored' = {} /\ clear_cut' = FALSE
    /\ UNCHANGED <<flash_vars, emds_ready, emds_initialized,
                   emds_dynamic_entries, call_vars, reboots>>

Storing == isr \in {"planned", "last"} /\ todo # <<>>
Entry == Head(todo)
NextEntry == todo' = Tail(todo) /\ block' = 0

\* emds_flash_write refuses an entry (-EACCES, -ENOMEM) or has nothing to
\* write; emds_store logs that and goes on.
Refuses == \/ ~emds_initialized \/ ~fs.is_prepeared
           \/ AteSize + Blocks[Entry] > emds_flash_free_space_get(fs)
           \/ Blocks[Entry] = 0

StoreSkips ==
    /\ Storing /\ block = 0 /\ Refuses
    /\ NextEntry
    /\ UNCHANGED <<flash_vars, emds_ready, emds_initialized,
                   emds_dynamic_entries, ram, call_vars, isr, stores, ghost_vars>>

\* Mutant: the offset is taken once data_wrt has moved it.
AteOffsetAfter == fs.data_wra_offset % OffsMod

\* Where data_wrt puts a block, and what entry_wrt puts in the ATE: both
\* keep 16 bits of data_wra_offset.
DataAddr == (fs.data_wra_offset % OffsMod) + block
AteOffset == (fs.data_wra_offset - Blocks[Entry]) % OffsMod

data_wrt ==
    /\ Storing /\ block < Blocks[Entry]
    /\ block = 0 => ~Refuses
    /\ flash' = [flash EXCEPT ![DataAddr] =
                    Program(@, DataBlock(Entry, ram[Entry], block))]
    /\ fs' = [fs EXCEPT !.data_wra_offset =
                    IF block + 1 = Blocks[Entry] THEN @ + Blocks[Entry] ELSE @]
    /\ block' = block + 1
    /\ UNCHANGED <<emds_ready, emds_initialized, emds_dynamic_entries, ram,
                   call_vars, isr, todo, stores, ghost_vars>>

ate_wrt ==
    LET w == block - Blocks[Entry] IN
    /\ Storing /\ block > 0 /\ w >= 0
    /\ flash' = [flash EXCEPT ![fs.ate_wra + w] =
                    Program(@, AteBlock(Entry, ram[Entry], AteOffset, Blocks[Entry], w))]
    /\ IF w + 1 < AteSize
       THEN block' = block + 1 /\ UNCHANGED <<fs, todo>>
       ELSE fs' = [fs EXCEPT !.ate_wra = @ - AteSize] /\ NextEntry
    /\ UNCHANGED <<emds_ready, emds_initialized, emds_dynamic_entries, ram,
                   call_vars, isr, stores, ghost_vars>>

StoreReturns ==
    /\ isr \in {"planned", "last"} /\ todo = <<>>
    /\ isr' = IF isr = "last" THEN "halted" ELSE "off"
    /\ emds_ready' = FALSE
    /\ stored' = {id \in Promised : Blocks[id] > 0}
    /\ UNCHANGED <<flash_vars, emds_initialized, emds_dynamic_entries, ram,
                   call_vars, todo, block, stores, clear_cut, reboots>>

\* The power is lost, at any time, and the device starts again.
PowerLoss ==
    /\ reboots < MaxReboots
    /\ reboots' = reboots + 1
    /\ fs' = EmptyFs
    /\ emds_ready' = FALSE /\ emds_initialized' = FALSE
    /\ emds_dynamic_entries' = <<>>
    /\ ram' = [id \in Ids |-> 0]
    /\ thread' = "idle" /\ cursor' = 0
    /\ isr' = "off" /\ todo' = <<>> /\ block' = 0
    /\ clear_cut' = (clear_cut \/ thread = "clear")
    /\ UNCHANGED <<flash, stores, stored>>

-----------------------------------------------------------------------------
EmdsNext ==
    \/ emds_init
    \/ \E id \in DynamicIds : emds_entry_add(id)
    \/ EntryAddReturns
    \/ emds_load
    \/ emds_prepare \/ old_entries_invalidate \/ InvalidateFails
    \/ emds_flash_prepare
    \/ emds_clear \/ EraseSector \/ emds_flash_clear \/ EraseFails
    \/ \E emergency \in BOOLEAN : emds_store(emergency)
    \/ StoreSkips \/ data_wrt \/ ate_wrt \/ StoreReturns
    \/ PowerLoss

EmdsSpec == EmdsInit /\ [][EmdsNext]_emds_vars

-----------------------------------------------------------------------------
(* Properties.                                                             *)

\* The addresses of struct emds_fs stay in the area, and every variable
\* holds a value of its type.
EmdsTypeOK ==
    /\ flash \in [Addresses -> Block]
    /\ fs \in [ate_wra : 0 .. Size - AteSize, data_wra_offset : Nat,
               force_erase : BOOLEAN, is_prepeared : BOOLEAN]
    /\ emds_ready \in BOOLEAN /\ emds_initialized \in BOOLEAN
    /\ emds_dynamic_entries \in Seq(Ids)
    /\ ram \in [Ids -> Contents]
    /\ thread \in {"idle", "add", "invalidate", "erase", "clear"} /\ cursor \in Nat
    /\ isr \in {"off", "planned", "last", "halted"}
    /\ todo \in Seq(Ids) /\ block \in Nat
    /\ stores \in Nat /\ stored \subseteq Ids
    /\ clear_cut \in BOOLEAN /\ reboots \in Nat

\* data_wrt and ate_wrt program erased blocks only: whatever earlier stores,
\* invalidations and power losses left in the area, no block is programmed
\* twice (ate_last_recover's check_erased and force_erase are there for it).
NoBlockReprogrammed == \A a \in Addresses : flash[a].kind # "clash"

\* Once emds_store has returned, and until emds_prepare or emds_clear
\* deletes it, every registered entry is read by emds_load as it was then,
\* after any number of power losses and restarts.  The one exception is an
\* entry whose emds_entry_add the store has interrupted.
StoredIsLoaded ==
    \A id \in stored : \A s \in ate_last_recover(flash, EmptyFs) :
        emds_flash_read(flash, s, id) = stores

\* An entry holds its default or what the last store wrote: a store that is
\* cut short never lets the data of an older one through, and no read leaves
\* other contents in an entry unless an emds_clear was cut short.
LoadNeverStale ==
    \A id \in Ids : ram[id] \in {0, stores} \/ (clear_cut /\ ram[id] = Clobbered)

\* emds_is_ready() means that a store finds the area writable and room for
\* every registered entry, but for one whose emds_entry_add is still to take
\* emds_ready back: no other can be refused for want of space.
ReadyFits ==
    emds_ready /\ isr = "off" =>
        /\ emds_entries_size(Reserved) <= emds_flash_free_space_get(fs)
        /\ check_erased(flash, fs.data_wra_offset, fs.ate_wra + AteSize)
=============================================================================
