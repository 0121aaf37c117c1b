----------------------------- MODULE EmdsProofs -----------------------------
(***************************************************************************)
(* Theorems about the emergency data storage (Emds), for every size of the *)
(* area, the sectors and the ATEs, and every set of entries.               *)
(***************************************************************************)
EXTENDS Emds, SequenceTheorems, WellFoundedInduction, TLAPS

FsType == [ate_wra : 0 .. Size - AteSize, data_wra_offset : Nat,
           force_erase : BOOLEAN, is_prepeared : BOOLEAN]

(* The sizes are positive, and the area is larger than one ATE.            *)
LEMMA Sizes ==
    /\ Size \in Nat /\ SectorSize \in Nat \ {0} /\ AteSize \in Nat \ {0}
    /\ OffsMod \in Nat \ {0} /\ Size > AteSize
    /\ Blocks \in [Ids -> Nat]
BY EmdsAssumption

\* Entry ids are naturals, and every entry has a length.
LEMMA IdTypes ==
    Ids \subseteq Nat /\ Static \in Seq(Ids) /\ DynamicIds \subseteq Ids
<1>0. Static \in Seq(Nat) /\ DynamicIds \subseteq Nat
  BY EmdsAssumption
<1>1. \A i \in DOMAIN Static : Static[i] \in Nat
  BY <1>0
<1>2. Ids \subseteq Nat /\ DynamicIds \subseteq Ids
  BY <1>0, <1>1 DEF Ids
<1>3. \A i \in DOMAIN Static : Static[i] \in Ids
  BY DEF Ids
<1>4. Static \in Seq(Ids)
  BY <1>0, <1>3
<1> QED BY <1>2, <1>4

\* Masking an offset to 16 bits keeps it a natural below the mask.
LEMMA OffsetRange ==
    ASSUME NEW n \in Int
    PROVE  n % OffsMod \in Nat
BY Sizes, SMT

\* The quotient and the remainder.
LEMMA Quotient ==
    ASSUME NEW x \in Int, NEW d \in Nat \ {0}
    PROVE  x % d \in 0 .. d - 1 /\ \E q \in Int : x = q * d + (x % d)
<1>1. x \div d \in Int /\ x = d * (x \div d) + (x % d) /\ x % d \in 0 .. d - 1
  BY SMT
<1>2. d * (x \div d) = (x \div d) * d
  BY <1>1, SMT
<1> QED BY <1>1, <1>2

\* The remainder is the only one in its range.
LEMMA Remainder ==
    ASSUME NEW x \in Int, NEW d \in Nat \ {0}, NEW q \in Int, NEW r \in 0 .. d - 1,
           x = q * d + r
    PROVE  x % d = r
BY SMT

\* Taking the divisor off leaves the remainder as it is.
LEMMA RemainderBelow ==
    ASSUME NEW x \in Int, NEW d \in Nat \ {0}
    PROVE  (x - d) % d = x % d
<1>1. PICK q \in Int : x = q * d + (x % d)
  BY Quotient
<1>2. x % d \in 0 .. d - 1
  BY Quotient
<1>3. x - d = (q - 1) * d + (x % d) /\ q - 1 \in Int /\ x - d \in Int
  <2>1. (q - 1) * d = q * d - d
    BY SMT
  <2>2. q * d \in Int /\ x % d \in Int
    BY <1>2
  <2> QED BY <1>1, <1>2, <2>1, <2>2
<1> QED BY <1>2, <1>3, Remainder

(* A set of naturals has a least element.                                  *)
LEMMA LeastNatural ==
    ASSUME NEW S \in SUBSET Nat, S # {}
    PROVE  \E a \in S : \A b \in S : a <= b
<1>1. IsWellFoundedOn(OpToRel(<, Nat), Nat)
  BY NatLessThanWellFounded
<1>2. \E a \in S : \A b \in S : ~(<<b, a>> \in OpToRel(<, Nat))
  BY <1>1, WFMin
<1>3. \A a, b \in Nat : ~(<<b, a>> \in OpToRel(<, Nat)) => a <= b
  BY DEF OpToRel
<1> QED BY <1>2, <1>3

\* What the driver programs are blocks.
LEMMA BlockTypes ==
    /\ Erased \in Block /\ Zero \in Block /\ Clash \in Block
    /\ Erased.kind = "erased" /\ Zero.kind = "zero"
    /\ \A id, w \in Nat : \A c \in Contents : DataBlock(id, c, w) \in Block
    /\ \A id, at, len, w \in Nat : \A c \in Contents :
           AteBlock(id, c, at, len, w) \in Block
    /\ \A id, store, w : DataBlock(id, store, w).kind = "data"
    /\ \A id, store, at, len, w : AteBlock(id, store, at, len, w).kind = "ate"
BY DEF Block, Contents, Plain, Erased, Zero, Clash, DataBlock, AteBlock

(* What ate_last_recover can make of struct emds_fs.                       *)
LEMMA RecoverType ==
    ASSUME NEW f \in [Addresses -> Block], NEW s \in FsType,
           NEW t \in ate_last_recover(f, s)
    PROVE  /\ t \in FsType
           /\ ~t.force_erase => check_erased(f, t.data_wra_offset, t.ate_wra + AteSize)
<1>1. CASE LastAtes(f) = {}
  <2>1. t = [s EXCEPT !.ate_wra = 0, !.data_wra_offset = 0, !.force_erase = TRUE]
    BY <1>1 DEF ate_last_recover
  <2>2. 0 \in 0 .. Size - AteSize
    BY Sizes
  <2> QED BY <2>1, <2>2 DEF FsType
<1>2. CASE LastAtes(f) # {}
  <2>1. PICK a \in LastAtes(f), d \in DataEnds(f) : t = RecoverAt(f, s, a, d)
    BY <1>2 DEF ate_last_recover
  <2>2. a \in 0 .. Size - AteSize
    BY Sizes DEF LastAtes, AteAddrs
  <2>3. d \in Nat
    <3>1. \A b \in AteAddrs : f[b] \in Block
      BY Sizes DEF AteAddrs, Addresses
    <3>2. \A b \in AteAddrs : f[b].at + f[b].len \in Nat
      BY <3>1 DEF Block
    <3> QED BY <3>2 DEF DataEnds
  <2>4. /\ t.ate_wra = a /\ t.data_wra_offset = d
        /\ t \in FsType
        /\ ~t.force_erase => check_erased(f, d, a + AteSize)
    BY <2>1, <2>2, <2>3, Sizes DEF RecoverAt, FsType
  <2> QED BY <2>4
<1> QED BY <1>1, <1>2

(* What emds_flash_read can leave in an entry.                             *)
LEMMA ReadType ==
    ASSUME NEW f \in [Addresses -> Block], NEW s \in FsType, NEW id \in Ids
    PROVE  emds_flash_read(f, s, id) \in Contents
<1> DEFINE found == {a \in AteAddrs : /\ a >= s.ate_wra
                                      /\ ate_check(f, a) = "VALID"
                                      /\ f[a].id = id}
           newest == CHOOSE a \in found : \A b \in found : a <= b
<1>1. CASE found = {}
  BY <1>1 DEF emds_flash_read, Contents
<1>2. CASE found # {}
  <2>1. found \in SUBSET Nat
    BY Sizes DEF AteAddrs
  <2>2. \E a \in found : \A b \in found : a <= b
    BY <1>2, <2>1, LeastNatural
  <2>3. newest \in found
    BY <2>2
  <2>4. newest \in Addresses
    BY <2>3, Sizes DEF AteAddrs, Addresses
  <2>5. f[newest].store \in Contents
    BY <2>4 DEF Block
  <2> HIDE DEF newest
  <2> QED BY <2>5, <1>2 DEF emds_flash_read, Contents, newest
<1> QED BY <1>1, <1>2

-----------------------------------------------------------------------------
(* Type correctness.  That ate_wra stays in the area needs the space check *)
(* of emds_flash_write, which an entry passes before its first block.      *)
StoreRuns == isr \in {"planned", "last"} /\ todo # <<>>

SpaceLeft ==
    StoreRuns /\ block > 0 =>
        /\ block < Blocks[Entry] + AteSize
        /\ block < Blocks[Entry] =>
                AteSize + Blocks[Entry] <= fs.ate_wra - fs.data_wra_offset
        /\ block >= Blocks[Entry] =>
                fs.data_wra_offset + AteSize <= fs.ate_wra

TypeInv == EmdsTypeOK /\ SpaceLeft

\* The entry a store is at is a registered id.
LEMMA EntryType ==
    ASSUME EmdsTypeOK, StoreRuns
    PROVE  Entry \in Ids /\ Tail(todo) \in Seq(Ids) /\ Blocks[Entry] \in Nat
           /\ ram[Entry] \in Contents
<1>1. todo \in Seq(Ids) /\ todo # <<>> /\ ram \in [Ids -> Contents]
  BY DEF EmdsTypeOK, StoreRuns
<1>2. Head(todo) \in Ids /\ Tail(todo) \in Seq(Ids)
  BY <1>1
<1> QED BY <1>1, <1>2, Sizes DEF Entry

\* The reserved entries are registered ones.
LEMMA ReservedType ==
    ASSUME EmdsTypeOK
    PROVE  Reserved \in Seq(Ids) /\ Promised \subseteq Ids
<1>1. emds_dynamic_entries \in Seq(Ids)
  BY DEF EmdsTypeOK
<1>2. PICK e \in Seq(Ids) : e = emds_dynamic_entries
  BY <1>1
<1>3. SubSeq(e, 1, Len(e) - 1) \in Seq(Ids)
  BY Z3
<1>4. Reserved \in Seq(Ids)
  BY <1>1, <1>2, <1>3 DEF Reserved
<1>5. Static \in Seq(Ids)
  BY IdTypes
<1> QED BY <1>4, <1>5 DEF Promised

\* An entry that emds_flash_write takes fits between the data and the ATEs.
LEMMA TakenFits ==
    ASSUME EmdsTypeOK, StoreRuns, ~Refuses
    PROVE  AteSize + Blocks[Entry] <= fs.ate_wra - fs.data_wra_offset
<1>1. fs.ate_wra \in Int /\ fs.data_wra_offset \in Nat
  BY Sizes DEF EmdsTypeOK
<1>2. Blocks[Entry] \in Nat
  BY EntryType
<1> QED BY <1>1, <1>2, Sizes DEF Refuses, emds_flash_free_space_get

\* The inductive type invariant holds at start up.
LEMMA TypeInit == EmdsInit => TypeInv
<1> SUFFICES ASSUME EmdsInit PROVE TypeInv
  OBVIOUS
<1>1. flash \in [Addresses -> Block]
  BY EmdsAssumption DEF EmdsInit
<1>2. EmptyFs \in FsType
  BY Sizes DEF EmptyFs, FsType
<1>3. ram \in [Ids -> Contents]
  BY DEF EmdsInit, Contents
<1>4. EmdsTypeOK
  <2>1. fs \in FsType
    BY <1>2 DEF EmdsInit
  <2>2. emds_dynamic_entries \in Seq(Ids) /\ todo \in Seq(Ids) /\ stored \subseteq Ids
    BY DEF EmdsInit
  <2>3. cursor \in Nat /\ block \in Nat /\ stores \in Nat /\ reboots \in Nat
    BY DEF EmdsInit
  <2>4. /\ emds_ready \in BOOLEAN /\ emds_initialized \in BOOLEAN /\ clear_cut \in BOOLEAN
        /\ thread = "idle" /\ isr = "off"
    BY DEF EmdsInit
  <2> QED BY <1>1, <1>3, <2>1, <2>2, <2>3, <2>4, Zenon DEF EmdsTypeOK, FsType
<1>5. SpaceLeft
  BY DEF EmdsInit, SpaceLeft, StoreRuns
<1> QED BY <1>4, <1>5 DEF TypeInv

\* Every step preserves the inductive type invariant.
LEMMA TypeStep == TypeInv /\ [EmdsNext]_emds_vars => TypeInv'
<1> SUFFICES ASSUME TypeInv, [EmdsNext]_emds_vars PROVE TypeInv'
  OBVIOUS
<1> USE DEF FsType
<1>0. EmdsTypeOK /\ fs \in FsType /\ SpaceLeft
  BY DEF TypeInv, EmdsTypeOK
<1>1. CASE UNCHANGED emds_vars
  BY <1>0, <1>1 DEF emds_vars, TypeInv, EmdsTypeOK, SpaceLeft, StoreRuns, Entry
<1>2. CASE emds_init
  <2>1. EmptyFs \in FsType
    BY Sizes DEF EmptyFs
  <2>2. fs' \in FsType
    BY <1>0, <1>2, <2>1, RecoverType DEF emds_init, EmdsTypeOK
  <2> QED BY <1>0, <1>2, <2>2 DEF emds_init, ThreadAt, call_vars, store_vars,
        ghost_vars, TypeInv, EmdsTypeOK, SpaceLeft, StoreRuns
<1>3. ASSUME NEW id \in DynamicIds, emds_entry_add(id) PROVE TypeInv'
  <2>1. emds_dynamic_entries' \in Seq(Ids)
    BY <1>0, <1>3, IdTypes DEF emds_entry_add, EmdsTypeOK
  <2> QED BY <1>0, <1>3, <2>1 DEF emds_entry_add, CallBegins, ThreadAt, flash_vars,
        call_vars, store_vars, ghost_vars, TypeInv, EmdsTypeOK, SpaceLeft, StoreRuns
<1>19. CASE EntryAddReturns
  BY <1>0, <1>19 DEF EntryAddReturns, ThreadAt, flash_vars, store_vars, ghost_vars,
     TypeInv, EmdsTypeOK, SpaceLeft, StoreRuns
<1>4. CASE emds_load
  <2>1. \A id \in Ids : emds_flash_read(flash, fs, id) \in Contents
    BY <1>0, ReadType DEF EmdsTypeOK
  <2>2. ram' \in [Ids -> Contents]
    BY <1>0, <1>4, <2>1 DEF emds_load, EmdsTypeOK
  <2> QED BY <1>0, <1>4, <2>2 DEF emds_load, CallBegins, ThreadAt, flash_vars,
        call_vars, store_vars, ghost_vars, TypeInv, EmdsTypeOK, SpaceLeft, StoreRuns
<1>5. CASE emds_prepare
  <2>1. cursor' \in Nat
    BY <1>0, <1>5, Sizes DEF emds_prepare, FirstOldAte
  <2> QED BY <1>0, <1>5, <2>1 DEF emds_prepare, MayDelete, CallBegins, ThreadAt,
        flash_vars, store_vars, TypeInv, EmdsTypeOK, SpaceLeft, StoreRuns
<1>6. CASE old_entries_invalidate
  <2>1. flash' \in [Addresses -> Block]
    BY <1>0, <1>6, BlockTypes DEF old_entries_invalidate, Program, EmdsTypeOK
  <2> QED BY <1>0, <1>6, <2>1 DEF old_entries_invalidate, ThreadAt,
        store_vars, ghost_vars, TypeInv, EmdsTypeOK, SpaceLeft, StoreRuns
<1>7. CASE InvalidateFails
  BY <1>0, <1>7 DEF InvalidateFails, ThreadAt, flash_vars,
        store_vars, ghost_vars, TypeInv, EmdsTypeOK, SpaceLeft, StoreRuns
<1>8. CASE emds_flash_prepare
  <2>1. /\ fs' \in FsType /\ emds_ready' \in BOOLEAN
        /\ thread' \in {"idle", "erase"} /\ cursor' \in Nat
    <3>1. CASE MustErase
      BY <1>0, <1>8, <3>1 DEF emds_flash_prepare, EmdsTypeOK
    <3>2. CASE ~MustErase
      BY <1>0, <1>8, <3>2 DEF emds_flash_prepare, PrepareReturns, EmdsTypeOK
    <3> QED BY <3>1, <3>2
  <2>2. EmdsTypeOK'
    BY <1>0, <1>8, <2>1 DEF emds_flash_prepare, store_vars, ghost_vars, EmdsTypeOK
  <2>3. SpaceLeft'
    BY <1>8 DEF emds_flash_prepare, ThreadAt, store_vars, SpaceLeft, StoreRuns
  <2> QED BY <2>2, <2>3 DEF TypeInv
<1>9. CASE emds_clear
  BY <1>0, <1>9 DEF emds_clear, MayDelete, CallBegins, ThreadAt,
        flash_vars, store_vars, TypeInv, EmdsTypeOK, SpaceLeft, StoreRuns
<1>10. CASE EraseSector
  <2>1. flash' \in [Addresses -> Block]
    BY <1>0, <1>10, BlockTypes DEF EraseSector, EmdsTypeOK
  <2>2. cursor' \in Nat
    BY <1>0, <1>10, Sizes DEF EraseSector, EmdsTypeOK
  <2> QED BY <1>0, <1>10, <2>1, <2>2 DEF EraseSector, ThreadAt,
        store_vars, ghost_vars, TypeInv, EmdsTypeOK, SpaceLeft, StoreRuns
<1>11. CASE emds_flash_clear
  <2>1. PICK s \in ate_last_recover(flash, fs) : EraseReturns(s, FALSE)
    BY <1>11 DEF emds_flash_clear
  <2>2. s \in FsType
    BY <1>0, <2>1, RecoverType DEF EmdsTypeOK
  <2> QED BY <1>0, <1>11, <2>1, <2>2 DEF emds_flash_clear, EraseReturns, PrepareReturns,
        ThreadAt, store_vars, TypeInv, EmdsTypeOK, SpaceLeft, StoreRuns
<1>12. CASE EraseFails
  BY <1>0, <1>12 DEF EraseFails, EraseReturns, PrepareReturns,
        ThreadAt, store_vars, TypeInv, EmdsTypeOK, SpaceLeft, StoreRuns
<1>13. ASSUME NEW e \in BOOLEAN, emds_store(e) PROVE TypeInv'
  <2>1. todo' \in Seq(Ids)
    BY <1>0, <1>13, IdTypes DEF emds_store, EmdsTypeOK
  <2>2. ram' \in [Ids -> Contents]
    BY <1>0, <1>13 DEF emds_store, EmdsTypeOK, Contents
  <2>3. isr' \in {"planned", "last"} /\ block' = 0
    BY <1>13 DEF emds_store
  <2>4. EmdsTypeOK'
    <3>0. /\ stores' = stores + 1 /\ block' = 0
          /\ stored' = {} /\ clear_cut' = FALSE
      BY <1>13, Zenon DEF emds_store
    <3>1. stores' \in Nat /\ block' \in Nat /\ stored' \subseteq Ids /\ clear_cut' \in BOOLEAN
      <4>1. stores \in Nat
        BY <1>0 DEF EmdsTypeOK
      <4>2. stores' \in Nat /\ block' \in Nat
        BY <3>0, <4>1
      <4> QED BY <3>0, <4>2, Zenon
    <3>2. UNCHANGED <<flash, fs, emds_ready, emds_initialized, emds_dynamic_entries,
                      thread, cursor, reboots>>
      BY <1>13 DEF emds_store, flash_vars, call_vars
    <3> QED BY <1>0, <2>1, <2>2, <2>3, <3>1, <3>2 DEF EmdsTypeOK
  <2>5. SpaceLeft'
    BY <2>3 DEF SpaceLeft
  <2> QED BY <2>4, <2>5 DEF TypeInv
<1>14. CASE StoreSkips
  <2>1. StoreRuns
    BY <1>14 DEF StoreSkips, Storing, StoreRuns
  <2>2. Tail(todo) \in Seq(Ids)
    BY <1>0, <2>1, EntryType
  <2> QED BY <1>0, <1>14, <2>2 DEF StoreSkips, NextEntry, flash_vars, call_vars,
        ghost_vars, TypeInv, EmdsTypeOK, SpaceLeft
<1>15. CASE data_wrt
  <2>1. StoreRuns
    BY <1>15 DEF data_wrt, Storing, StoreRuns
  <2>2. Entry \in Ids /\ Blocks[Entry] \in Nat /\ ram[Entry] \in Contents
    BY <1>0, <2>1, EntryType
  <2>3. flash' \in [Addresses -> Block]
    <3>1. DataBlock(Entry, ram[Entry], block) \in Block
      BY <1>0, <2>2, IdTypes, BlockTypes DEF EmdsTypeOK
    <3> QED BY <1>0, <1>15, <3>1, BlockTypes DEF data_wrt, Program, EmdsTypeOK
  <2>4. fs' \in FsType
    BY <1>0, <1>15, <2>2 DEF data_wrt
  <2>5. AteSize + Blocks[Entry] <= fs.ate_wra - fs.data_wra_offset
    BY <1>0, <1>15, <2>1, TakenFits DEF data_wrt, SpaceLeft, EmdsTypeOK
  <2>6. SpaceLeft'
    <3>1. block' = block + 1 /\ Entry' = Entry /\ block < Blocks[Entry] /\ block \in Nat
      BY <1>0, <1>15 DEF data_wrt, Entry, EmdsTypeOK
    <3>2. /\ fs'.ate_wra = fs.ate_wra
          /\ fs'.data_wra_offset = IF block + 1 = Blocks[Entry]
                                   THEN fs.data_wra_offset + Blocks[Entry]
                                   ELSE fs.data_wra_offset
      BY <1>0, <1>15 DEF data_wrt
    <3>3. fs.ate_wra \in Int /\ fs.data_wra_offset \in Nat
      BY <1>0, Sizes
    <3> QED BY <2>2, <2>5, <3>1, <3>2, <3>3, Sizes DEF SpaceLeft
  <2> QED BY <1>0, <1>15, <2>3, <2>4, <2>6 DEF data_wrt, call_vars, ghost_vars,
        TypeInv, EmdsTypeOK
<1>16. CASE ate_wrt
  <2>1. StoreRuns /\ block > 0 /\ block >= Blocks[Entry]
    <3>1. StoreRuns /\ block > 0 /\ block - Blocks[Entry] >= 0
      BY <1>16 DEF ate_wrt, Storing, StoreRuns
    <3> QED BY <1>0, <3>1, EntryType DEF EmdsTypeOK
  <2>2. Entry \in Ids /\ Blocks[Entry] \in Nat /\ ram[Entry] \in Contents
        /\ Tail(todo) \in Seq(Ids)
    BY <1>0, <2>1, EntryType
  <2>3. flash' \in [Addresses -> Block]
    <3>1. AteOffset \in Nat /\ block - Blocks[Entry] \in Nat
      <4>1. fs.data_wra_offset - Blocks[Entry] \in Int /\ block - Blocks[Entry] \in Nat
        BY <1>0, <2>1, <2>2 DEF EmdsTypeOK
      <4> QED BY <4>1, OffsetRange DEF AteOffset
    <3>2. AteBlock(Entry, ram[Entry], AteOffset, Blocks[Entry], block - Blocks[Entry])
            \in Block
      BY <2>2, <3>1, IdTypes, BlockTypes
    <3> QED BY <1>0, <1>16, <3>2, BlockTypes DEF ate_wrt, Program, EmdsTypeOK
  <2>4. fs.data_wra_offset + AteSize <= fs.ate_wra /\ block < Blocks[Entry] + AteSize
    BY <1>0, <2>1 DEF SpaceLeft
  <2>5. CASE block - Blocks[Entry] + 1 < AteSize
    <3>1. block' = block + 1 /\ fs' = fs /\ todo' = todo
      BY <1>16, <2>5 DEF ate_wrt
    <3>2. SpaceLeft'
      BY <1>0, <2>1, <2>2, <2>4, <2>5, <3>1, Sizes DEF SpaceLeft, Entry, EmdsTypeOK
    <3> QED BY <1>0, <1>16, <2>3, <3>1, <3>2 DEF ate_wrt, call_vars, ghost_vars,
          TypeInv, EmdsTypeOK
  <2>6. CASE ~(block - Blocks[Entry] + 1 < AteSize)
    <3>1. fs' = [fs EXCEPT !.ate_wra = @ - AteSize] /\ todo' = Tail(todo) /\ block' = 0
      BY <1>16, <2>6 DEF ate_wrt, NextEntry
    <3>2. fs.ate_wra - AteSize \in 0 .. Size - AteSize
      BY <1>0, <2>4, Sizes
    <3>3. fs' \in FsType
      BY <1>0, <3>1, <3>2
    <3> QED BY <1>0, <1>16, <2>2, <2>3, <3>1, <3>3 DEF ate_wrt, call_vars, ghost_vars,
          TypeInv, EmdsTypeOK, SpaceLeft
  <2> QED BY <2>5, <2>6
<1>17. CASE StoreReturns
  <2>1. Promised \subseteq Ids
    BY <1>0, ReservedType
  <2> QED BY <1>0, <1>17, <2>1 DEF StoreReturns, flash_vars, call_vars, TypeInv, EmdsTypeOK,
        SpaceLeft, StoreRuns
<1>18. CASE PowerLoss
  <2>1. EmptyFs \in FsType
    BY Sizes DEF EmptyFs
  <2>2. ram' \in [Ids -> Contents]
    BY <1>18 DEF PowerLoss, Contents
  <2>3. EmdsTypeOK'
    <3>1. fs' \in FsType /\ emds_ready' = FALSE /\ emds_initialized' = FALSE
      BY <1>18, <2>1 DEF PowerLoss
    <3>2. emds_dynamic_entries' \in Seq(Ids) /\ todo' \in Seq(Ids)
      BY <1>18 DEF PowerLoss
    <3>3. /\ thread' = "idle" /\ isr' = "off" /\ cursor' \in Nat /\ block' \in Nat
          /\ reboots' \in Nat
      BY <1>0, <1>18 DEF PowerLoss, EmdsTypeOK
    <3>4. clear_cut' \in BOOLEAN
      BY <1>0, <1>18, Zenon DEF PowerLoss, EmdsTypeOK
    <3>5. UNCHANGED <<flash, stores, stored>>
      BY <1>18 DEF PowerLoss
    <3> QED BY <1>0, <2>2, <3>1, <3>2, <3>3, <3>4, <3>5 DEF EmdsTypeOK
  <2>4. SpaceLeft'
    BY <1>18 DEF PowerLoss, SpaceLeft, StoreRuns
  <2> QED BY <2>3, <2>4 DEF TypeInv
<1> QED BY <1>1, <1>2, <1>3, <1>4, <1>5, <1>6, <1>7, <1>8, <1>9, <1>10, <1>11, <1>12,
       <1>13, <1>14, <1>15, <1>16, <1>17, <1>18, <1>19 DEF EmdsNext

(* Every variable keeps its type, and the addresses of struct emds_fs stay *)
(* in the area, whatever emds_store is interrupted by.                     *)
THEOREM EmdsTypeCorrect == EmdsSpec => []EmdsTypeOK
<1>1. EmdsSpec => []TypeInv
  BY TypeInit, TypeStep, PTL DEF EmdsSpec
<1>2. TypeInv => EmdsTypeOK
  BY DEF TypeInv
<1> QED BY <1>1, <1>2, PTL

-----------------------------------------------------------------------------
(* No block is programmed twice, in an area whose offsets fit 16 bits and  *)
(* whose erasures in emds_prepare do not fail.  What makes that inductive  *)
(* is that the gap between the data and the ATEs is erased: whenever       *)
(* force_erase does not say otherwise, whenever emds_ready, and, without   *)
(* the blocks written so far, during a store.                              *)
SoundArea == Size <= OffsMod /\ "erase" \notin FlashFailsIn

GapErased == check_erased(flash, fs.data_wra_offset, fs.ate_wra + AteSize)

IdleGap ==
    isr = "off" /\ emds_initialized /\ (emds_ready \/ ~fs.force_erase) => GapErased

StoreGap ==
    isr \in {"planned", "last"} =>
        /\ emds_initialized
        /\ todo = <<>> \/ block = 0 => GapErased
        /\ StoreRuns /\ block > 0 /\ block < Blocks[Entry] =>
               check_erased(flash, fs.data_wra_offset + block, fs.ate_wra + AteSize)
        /\ StoreRuns /\ block > 0 /\ block >= Blocks[Entry] =>
               /\ check_erased(flash, fs.data_wra_offset, fs.ate_wra)
               /\ check_erased(flash, fs.ate_wra + (block - Blocks[Entry]),
                               fs.ate_wra + AteSize)

ReadyInitialized == emds_ready \/ thread # "idle" => emds_initialized

\* Only ATEs above the gap are invalidated.
CursorAbove == thread = "invalidate" => cursor >= fs.ate_wra + AteSize

GapInv == NoBlockReprogrammed /\ IdleGap /\ StoreGap /\ ReadyInitialized /\ CursorAbove

(* Programming an erased block gives what was programmed; programming or   *)
(* erasing elsewhere leaves a gap erased.                                  *)
LEMMA ProgramErased ==
    ASSUME NEW f \in [Addresses -> Block], NEW c \in Addresses, f[c] = Erased,
           NEW v \in Block, v.kind # "clash",
           \A a \in Addresses : f[a].kind # "clash"
    PROVE  \A a \in Addresses : [f EXCEPT ![c] = Program(@, v)][a].kind # "clash"
BY DEF Program

\* A range untouched by a step stays erased.
LEMMA KeepsErased ==
    ASSUME NEW f, NEW g, NEW c \in Int, NEW from \in Int, NEW to \in Int,
           \A a \in Addresses : a # c => g[a] = f[a],
           check_erased(f, from, to), c < from \/ c >= to
    PROVE  check_erased(g, from, to)
BY Sizes DEF check_erased, Addresses

\* Part of an erased range is erased.
LEMMA SmallerGap ==
    ASSUME NEW f, NEW from \in Int, NEW to \in Int, NEW from2 \in Int, NEW to2 \in Int,
           check_erased(f, from, to), from <= from2, to2 <= to
    PROVE  check_erased(f, from2, to2)
BY Sizes DEF check_erased, Addresses

\* In an area of at most 64 KB the 16-bit mask loses nothing.
LEMMA OffsetExact ==
    ASSUME NEW n \in Nat, n < OffsMod
    PROVE  n % OffsMod = n
BY Sizes, SMT

\* The inductive invariant of the erased gap holds at start up.
LEMMA GapInit == EmdsInit => GapInv
<1> SUFFICES ASSUME EmdsInit PROVE GapInv
  OBVIOUS
<1>1. NoBlockReprogrammed
  BY EmdsAssumption DEF EmdsInit, NoBlockReprogrammed
<1> QED BY <1>1 DEF EmdsInit, GapInv, IdleGap, StoreGap, ReadyInitialized, CursorAbove

\* Where data_wrt programs: an erased block of the gap.
LEMMA DataPlace ==
    ASSUME SoundArea, TypeInv, StoreGap, data_wrt
    PROVE  /\ StoreRuns /\ block < Blocks[Entry] /\ Entry \in Ids /\ Blocks[Entry] \in Nat
           /\ AteSize + Blocks[Entry] <= fs.ate_wra - fs.data_wra_offset
           /\ check_erased(flash, fs.data_wra_offset + block, fs.ate_wra + AteSize)
           /\ fs.data_wra_offset + block \in Addresses
           /\ flash[fs.data_wra_offset + block] = Erased
           /\ DataBlock(Entry, ram[Entry], block) \in Block
           /\ flash' = [flash EXCEPT ![fs.data_wra_offset + block] =
                                       Program(@, DataBlock(Entry, ram[Entry], block))]
<1> DEFINE aw == fs.ate_wra
           dw == fs.data_wra_offset
           L == Blocks[Entry]
<1>0. /\ EmdsTypeOK /\ aw \in Int /\ dw \in Nat /\ block \in Nat
      /\ aw + AteSize <= Size /\ aw >= 0
  BY Sizes DEF TypeInv, EmdsTypeOK
<1>1. /\ StoreRuns /\ block < L /\ (block = 0 => ~Refuses)
      /\ flash' = [flash EXCEPT ![DataAddr] = Program(@, DataBlock(Entry, ram[Entry], block))]
  BY DEF data_wrt, Storing, StoreRuns
<1>2. Entry \in Ids /\ L \in Nat /\ ram[Entry] \in Contents
  BY <1>0, <1>1, EntryType
<1>3. AteSize + L <= aw - dw
  BY <1>0, <1>1, TakenFits DEF TypeInv, SpaceLeft
<1>4. check_erased(flash, dw + block, aw + AteSize)
  <2>1. CASE block = 0
    BY <1>0, <1>1, <2>1 DEF StoreGap, StoreRuns, GapErased
  <2>2. CASE block > 0
    BY <1>1, <2>2 DEF StoreGap, StoreRuns
  <2> QED BY <1>0, <2>1, <2>2
<1>5. DataAddr = dw + block /\ dw + block \in Addresses
  <2>1. dw < OffsMod
    BY <1>0, <1>2, <1>3, Sizes DEF SoundArea
  <2>2. dw % OffsMod = dw
    BY <1>0, <2>1, OffsetExact
  <2>3. dw + block \in 0 .. Size - 1
    BY <1>0, <1>1, <1>2, <1>3, Sizes
  <2> QED BY <2>2, <2>3 DEF DataAddr, Addresses
<1>6. flash[dw + block] = Erased
  BY <1>0, <1>1, <1>2, <1>3, <1>4, <1>5, Sizes DEF check_erased
<1>7. DataBlock(Entry, ram[Entry], block) \in Block
  BY <1>0, <1>2, IdTypes, BlockTypes
<1> QED BY <1>1, <1>2, <1>3, <1>4, <1>5, <1>6, <1>7

\* Where ate_wrt programs: the next block of the ATE, which is erased.
LEMMA AtePlace ==
    ASSUME TypeInv, StoreGap, ate_wrt
    PROVE  /\ StoreRuns /\ block > 0 /\ block >= Blocks[Entry] /\ Entry \in Ids
           /\ Blocks[Entry] \in Nat /\ block - Blocks[Entry] \in Words
           /\ fs.data_wra_offset + AteSize <= fs.ate_wra
           /\ check_erased(flash, fs.data_wra_offset, fs.ate_wra)
           /\ check_erased(flash, fs.ate_wra + (block - Blocks[Entry]), fs.ate_wra + AteSize)
           /\ fs.ate_wra + (block - Blocks[Entry]) \in Addresses
           /\ flash[fs.ate_wra + (block - Blocks[Entry])] = Erased
           /\ AteBlock(Entry, ram[Entry], AteOffset, Blocks[Entry], block - Blocks[Entry]) \in Block
           /\ flash' = [flash EXCEPT ![fs.ate_wra + (block - Blocks[Entry])] =
                  Program(@, AteBlock(Entry, ram[Entry], AteOffset, Blocks[Entry],
                                      block - Blocks[Entry]))]
<1> DEFINE aw == fs.ate_wra
           dw == fs.data_wra_offset
           L == Blocks[Entry]
           w == block - L
<1>0. /\ EmdsTypeOK /\ aw \in Int /\ dw \in Nat /\ block \in Nat
      /\ aw + AteSize <= Size /\ aw >= 0
  BY Sizes DEF TypeInv, EmdsTypeOK
<1>1. /\ StoreRuns /\ block > 0 /\ w >= 0
      /\ flash' = [flash EXCEPT ![aw + w] = Program(@, AteBlock(Entry, ram[Entry], AteOffset, L, w))]
  BY DEF ate_wrt, Storing, StoreRuns
<1>2. Entry \in Ids /\ L \in Nat /\ ram[Entry] \in Contents
  BY <1>0, <1>1, EntryType
<1>3. w \in Nat /\ block >= L
  BY <1>0, <1>1, <1>2
<1>4. w < AteSize /\ dw + AteSize <= aw
  BY <1>0, <1>1, <1>2, <1>3, Sizes DEF TypeInv, SpaceLeft
<1>5. w \in Words
  BY <1>3, <1>4, Sizes DEF Words
<1>6. check_erased(flash, dw, aw) /\ check_erased(flash, aw + w, aw + AteSize)
  BY <1>1, <1>3 DEF StoreGap, StoreRuns
<1>7. aw + w \in Addresses /\ flash[aw + w] = Erased
  <2>1. aw + w \in 0 .. Size - 1 /\ aw + w < aw + AteSize /\ aw + w <= aw + w
    BY <1>0, <1>3, <1>4, Sizes
  <2> QED BY <1>6, <2>1 DEF check_erased, Addresses
<1>8. AteBlock(Entry, ram[Entry], AteOffset, L, w) \in Block
  <2>1. dw - L \in Int
    BY <1>0, <1>2
  <2>2. AteOffset \in Nat
    BY <2>1, OffsetRange DEF AteOffset
  <2> QED BY <1>2, <1>3, <2>2, IdTypes, BlockTypes
<1> QED BY <1>1, <1>2, <1>3, <1>4, <1>5, <1>6, <1>7, <1>8

\* Every step preserves it: one case per action.
LEMMA GapStep ==
    SoundArea /\ TypeInv /\ GapInv /\ [EmdsNext]_emds_vars => GapInv'
<1> SUFFICES ASSUME SoundArea, TypeInv, GapInv, [EmdsNext]_emds_vars PROVE GapInv'
  OBVIOUS
<1>0. /\ flash \in [Addresses -> Block] /\ fs \in FsType /\ EmdsTypeOK
      /\ fs.ate_wra \in Int /\ fs.data_wra_offset \in Nat /\ block \in Nat
      /\ fs.ate_wra + AteSize <= Size /\ fs.ate_wra >= 0
  BY Sizes DEF TypeInv, EmdsTypeOK, FsType
<1>a. NoBlockReprogrammed /\ IdleGap /\ StoreGap /\ ReadyInitialized /\ CursorAbove
  BY DEF GapInv
<1>1. CASE UNCHANGED emds_vars
  BY <1>a, <1>1 DEF emds_vars, GapInv, NoBlockReprogrammed, IdleGap, StoreGap,
     ReadyInitialized, CursorAbove, GapErased, StoreRuns, Entry
<1>2. CASE emds_init
  <2>1. EmptyFs \in FsType
    BY Sizes DEF EmptyFs, FsType
  <2>2. ~fs'.force_erase => GapErased'
    BY <1>0, <1>2, <2>1, RecoverType DEF emds_init, GapErased
  <2>3. ~emds_ready /\ emds_ready' = emds_ready /\ isr' = "off" /\ thread' = "idle"
    BY <1>a, <1>2 DEF emds_init, ThreadAt, ReadyInitialized, call_vars, store_vars
  <2>4. NoBlockReprogrammed'
    BY <1>a, <1>2 DEF emds_init, NoBlockReprogrammed
  <2> QED BY <2>2, <2>3, <2>4 DEF GapInv, IdleGap, StoreGap, ReadyInitialized, CursorAbove
<1>3. ASSUME NEW id \in DynamicIds, emds_entry_add(id) PROVE GapInv'
  <2>1. /\ UNCHANGED <<flash, fs, isr, cursor, emds_initialized, emds_ready>>
        /\ isr = "off" /\ emds_initialized /\ thread' = "add"
    BY <1>3 DEF emds_entry_add, CallBegins, ThreadAt, flash_vars, store_vars
  <2> QED BY <1>a, <2>1 DEF GapInv, NoBlockReprogrammed, IdleGap, StoreGap,
        ReadyInitialized, CursorAbove, GapErased
<1>19. CASE EntryAddReturns
  <2>1. /\ UNCHANGED <<flash, fs, isr, cursor, emds_initialized>>
        /\ isr = "off" /\ thread' = "idle" /\ ~emds_ready'
    BY <1>19 DEF EntryAddReturns, ThreadAt, flash_vars, store_vars
  <2> QED BY <1>a, <2>1 DEF GapInv, NoBlockReprogrammed, IdleGap, StoreGap,
        ReadyInitialized, CursorAbove, GapErased
<1>4. CASE emds_load
  <2>1. UNCHANGED <<flash, fs, isr, thread, cursor, emds_initialized, emds_ready>>
        /\ isr = "off"
    BY <1>4 DEF emds_load, CallBegins, ThreadAt, flash_vars, call_vars, store_vars
  <2> QED BY <1>a, <2>1 DEF GapInv, NoBlockReprogrammed, IdleGap, StoreGap,
        ReadyInitialized, CursorAbove, GapErased
<1>5. CASE emds_prepare
  <2>1. /\ UNCHANGED <<flash, fs, isr, emds_initialized, emds_ready>> /\ isr = "off"
        /\ emds_initialized /\ cursor' = fs.ate_wra + AteSize
    BY <1>5 DEF emds_prepare, MayDelete, CallBegins, ThreadAt, flash_vars, store_vars,
       FirstOldAte
  <2> QED BY <1>0, <1>a, <2>1, Sizes DEF GapInv, NoBlockReprogrammed, IdleGap, StoreGap,
        ReadyInitialized, CursorAbove, GapErased
<1>6. CASE old_entries_invalidate
  <2>1. /\ UNCHANGED <<fs, isr, emds_initialized, emds_ready, thread>> /\ isr = "off"
        /\ flash' = [flash EXCEPT ![cursor] = Program(@, Zero)]
        /\ cursor' = cursor + 1 /\ thread = "invalidate" /\ cursor \in Nat
    BY <1>0, <1>6 DEF old_entries_invalidate, ThreadAt, store_vars, EmdsTypeOK
  <2>2. cursor >= fs.ate_wra + AteSize
    BY <1>a, <2>1 DEF CursorAbove
  <2>3. GapErased => GapErased'
    <3>1. \A a \in Addresses : a # cursor => flash'[a] = flash[a]
      BY <1>0, <2>1
    <3>2. fs.ate_wra + AteSize \in Int /\ fs.data_wra_offset \in Int /\ cursor \in Int
      BY <1>0, <2>1, Sizes
    <3> QED BY <2>1, <2>2, <3>1, <3>2, KeepsErased DEF GapErased
  <2>4. NoBlockReprogrammed'
    BY <1>0, <1>a, <2>1, BlockTypes DEF NoBlockReprogrammed, Program
  <2>5. CursorAbove'
    BY <1>0, <2>1, <2>2, Sizes DEF CursorAbove
  <2> QED BY <1>a, <2>1, <2>3, <2>4, <2>5 DEF GapInv, IdleGap, StoreGap, ReadyInitialized
<1>7. CASE InvalidateFails
  <2>1. /\ UNCHANGED <<flash, fs, isr, emds_initialized, emds_ready>> /\ isr = "off"
        /\ thread' = "idle"
    BY <1>7 DEF InvalidateFails, ThreadAt, flash_vars, store_vars
  <2> QED BY <1>a, <2>1 DEF GapInv, NoBlockReprogrammed, IdleGap, StoreGap,
        ReadyInitialized, CursorAbove, GapErased
<1>8. CASE emds_flash_prepare
  <2>1. UNCHANGED <<flash, isr, emds_initialized>> /\ isr = "off" /\ thread' # "invalidate"
    BY <1>8 DEF emds_flash_prepare, PrepareReturns, ThreadAt, store_vars
  <2>2. CASE MustErase
    <3>1. UNCHANGED <<fs, emds_ready>> /\ emds_initialized
      BY <1>a, <1>8, <2>2 DEF emds_flash_prepare, ThreadAt, ReadyInitialized
    <3> QED BY <1>a, <2>1, <3>1 DEF GapInv, NoBlockReprogrammed, IdleGap, StoreGap,
          ReadyInitialized, CursorAbove, GapErased
  <2>3. CASE ~MustErase
    <3>1. /\ fs' = [fs EXCEPT !.is_prepeared = TRUE] /\ emds_ready' = TRUE
          /\ ~fs.force_erase
      BY <1>8, <2>3 DEF emds_flash_prepare, PrepareReturns, MustErase
    <3>2. fs'.ate_wra = fs.ate_wra /\ fs'.data_wra_offset = fs.data_wra_offset
      BY <1>0, <3>1 DEF FsType
    <3>3. emds_initialized
      BY <1>a, <1>8 DEF emds_flash_prepare, ThreadAt, ReadyInitialized
    <3> QED BY <1>a, <2>1, <3>1, <3>2, <3>3 DEF GapInv, NoBlockReprogrammed, IdleGap,
          StoreGap, ReadyInitialized, CursorAbove, GapErased
  <2> QED BY <2>2, <2>3
<1>9. CASE emds_clear
  <2>1. /\ UNCHANGED <<flash, fs, isr, emds_initialized, emds_ready>> /\ isr = "off"
        /\ emds_initialized /\ thread' = "clear"
    BY <1>9 DEF emds_clear, MayDelete, CallBegins, ThreadAt, flash_vars, store_vars
  <2> QED BY <1>a, <2>1 DEF GapInv, NoBlockReprogrammed, IdleGap, StoreGap,
        ReadyInitialized, CursorAbove, GapErased
<1>10. CASE EraseSector
  <2>1. /\ UNCHANGED <<fs, isr, emds_initialized, emds_ready, thread>> /\ isr = "off"
        /\ thread # "invalidate"
    BY <1>10 DEF EraseSector, ThreadAt, store_vars
  <2>2. \A a \in Addresses : flash'[a] = Erased \/ flash'[a] = flash[a]
    BY <1>10 DEF EraseSector
  <2>3. GapErased => GapErased'
    BY <2>1, <2>2 DEF GapErased, check_erased
  <2>4. NoBlockReprogrammed'
    BY <1>a, <2>2, BlockTypes DEF NoBlockReprogrammed
  <2> QED BY <1>a, <2>1, <2>3, <2>4 DEF GapInv, IdleGap, StoreGap, ReadyInitialized,
        CursorAbove
<1>11. CASE emds_flash_clear
  <2>1. PICK s \in ate_last_recover(flash, fs) : EraseReturns(s, FALSE)
    BY <1>11 DEF emds_flash_clear
  <2>2. s \in FsType
    BY <1>0, RecoverType
  <2>3. \A from, to : check_erased(flash, from, to)
    BY <1>11, Sizes DEF emds_flash_clear, check_erased, Addresses
  <2>4. /\ UNCHANGED <<flash, isr, emds_initialized>> /\ isr = "off"
        /\ thread' = "idle" /\ emds_initialized
    BY <1>a, <1>11, <2>1 DEF emds_flash_clear, EraseReturns, PrepareReturns, ThreadAt,
       store_vars, ReadyInitialized
  <2>5. GapErased'
    BY <2>3, <2>4 DEF GapErased, check_erased
  <2> QED BY <1>a, <2>4, <2>5 DEF GapInv, NoBlockReprogrammed, IdleGap, StoreGap,
        ReadyInitialized, CursorAbove
<1>12. CASE EraseFails
  <2>1. /\ UNCHANGED <<flash, fs, isr, emds_initialized, emds_ready>> /\ isr = "off"
        /\ thread' = "idle"
    BY <1>12 DEF EraseFails, EraseReturns, ThreadAt, store_vars, SoundArea
  <2> QED BY <1>a, <2>1 DEF GapInv, NoBlockReprogrammed, IdleGap, StoreGap,
        ReadyInitialized, CursorAbove, GapErased
<1>13. ASSUME NEW e \in BOOLEAN, emds_store(e) PROVE GapInv'
  <2>1. /\ UNCHANGED <<flash, fs, emds_initialized, emds_ready, thread, cursor>>
        /\ isr = "off" /\ emds_ready /\ block' = 0
    BY <1>13 DEF emds_store, flash_vars, call_vars
  <2>2. isr' \in {"planned", "last"}
    BY <1>13 DEF emds_store
  <2>3. GapErased' /\ emds_initialized
    BY <1>a, <2>1 DEF IdleGap, ReadyInitialized, GapErased
  <2> QED BY <1>a, <2>1, <2>2, <2>3 DEF GapInv, NoBlockReprogrammed, IdleGap, StoreGap,
        ReadyInitialized, CursorAbove
<1>14. CASE StoreSkips
  <2>1. /\ UNCHANGED <<flash, fs, emds_initialized, emds_ready, thread, cursor, isr>>
        /\ isr \in {"planned", "last"} /\ block = 0 /\ block' = 0
    BY <1>14 DEF StoreSkips, Storing, NextEntry, flash_vars, call_vars
  <2>2. GapErased' /\ emds_initialized
    BY <1>a, <2>1 DEF StoreGap, GapErased
  <2> QED BY <1>a, <2>1, <2>2 DEF GapInv, NoBlockReprogrammed, IdleGap, StoreGap,
        ReadyInitialized, CursorAbove
<1>15. CASE data_wrt
  <2> DEFINE aw == fs.ate_wra
             dw == fs.data_wra_offset
             L == Blocks[Entry]
             v == DataBlock(Entry, ram[Entry], block)
  <2>1. /\ StoreRuns /\ block < L
        /\ flash' = [flash EXCEPT ![dw + block] = Program(@, v)]
        /\ block' = block + 1
        /\ UNCHANGED <<emds_initialized, emds_ready, thread, cursor, isr, todo>>
    BY <1>a, <1>15, DataPlace DEF data_wrt, call_vars
  <2>2. L \in Nat
    BY <1>a, <1>15, DataPlace
  <2>3. AteSize + L <= aw - dw
    BY <1>a, <1>15, DataPlace
  <2>4. check_erased(flash, dw + block, aw + AteSize)
    BY <1>a, <1>15, DataPlace
  <2>5. dw + block \in Addresses
    BY <1>a, <1>15, DataPlace
  <2>6. flash[dw + block] = Erased
    BY <1>a, <1>15, DataPlace
  <2>7. v \in Block /\ v.kind # "clash"
    BY <1>a, <1>15, DataPlace, BlockTypes
  <2> HIDE DEF v
  <2>8. NoBlockReprogrammed'
    BY <1>0, <1>a, <2>1, <2>5, <2>6, <2>7, ProgramErased DEF NoBlockReprogrammed
  <2>9. check_erased(flash', dw + block + 1, aw + AteSize)
    <3>1. check_erased(flash, dw + block + 1, aw + AteSize)
      BY <1>0, <2>4, SmallerGap, Sizes
    <3>2. \A a \in Addresses : a # dw + block => flash'[a] = flash[a]
      BY <1>0, <2>1, <2>5
    <3>3. dw + block \in Int /\ dw + block + 1 \in Int /\ aw + AteSize \in Int
          /\ dw + block < dw + block + 1
      BY <1>0, Sizes
    <3> QED BY <3>1, <3>2, <3>3, KeepsErased
  <2>10. fs'.ate_wra = aw /\ fs'.data_wra_offset = IF block + 1 = L THEN dw + L ELSE dw
    BY <1>0, <1>15 DEF data_wrt, FsType
  <2>11. Entry' = Entry /\ StoreRuns' /\ isr' \in {"planned", "last"} /\ todo' # <<>>
    BY <2>1 DEF Entry, StoreRuns
  <2>12. CASE block + 1 < L
    <3>1. check_erased(flash', fs'.data_wra_offset + block', fs'.ate_wra + AteSize)
      BY <1>0, <2>1, <2>2, <2>9, <2>10, <2>12
    <3>2. StoreGap'
      BY <1>0, <1>a, <2>1, <2>2, <2>11, <2>12, <3>1 DEF StoreGap, StoreRuns
    <3> QED BY <1>0, <1>a, <2>1, <2>8, <2>10, <2>11, <3>2 DEF GapInv, IdleGap,
          ReadyInitialized, CursorAbove
  <2>13. CASE block + 1 = L
    <3>1. check_erased(flash', dw + L, aw + AteSize)
      BY <1>0, <2>2, <2>9, <2>13
    <3>2. /\ check_erased(flash', dw + L, aw)
          /\ check_erased(flash', aw, aw + AteSize)
      BY <1>0, <2>2, <2>3, <3>1, SmallerGap, Sizes
    <3>3. /\ fs'.data_wra_offset = dw + L /\ fs'.ate_wra = aw
          /\ fs'.ate_wra + (block' - L) = aw /\ block' = L /\ block' > 0
      BY <1>0, <2>1, <2>2, <2>10, <2>13
    <3>4. StoreGap'
      BY <1>0, <1>a, <2>1, <2>2, <2>11, <3>2, <3>3 DEF StoreGap, StoreRuns
    <3> QED BY <1>0, <1>a, <2>1, <2>8, <2>10, <2>11, <3>4 DEF GapInv, IdleGap,
          ReadyInitialized, CursorAbove
  <2> QED BY <1>0, <2>1, <2>2, <2>12, <2>13
<1>16. CASE ate_wrt
  <2> DEFINE aw == fs.ate_wra
             dw == fs.data_wra_offset
             L == Blocks[Entry]
             w == block - L
             v == AteBlock(Entry, ram[Entry], AteOffset, L, w)
  <2>0. L \in Nat
    BY <1>a, <1>16, AtePlace
  <2>1. /\ StoreRuns /\ block > 0 /\ w >= 0
        /\ flash' = [flash EXCEPT ![aw + w] = Program(@, v)]
        /\ UNCHANGED <<emds_initialized, emds_ready, thread, cursor, isr>>
    BY <1>a, <1>16, AtePlace DEF ate_wrt, call_vars
  <2>2. w \in Nat /\ block >= L
    BY <1>a, <1>16, AtePlace, Sizes DEF Words
  <2>3. w < AteSize /\ dw + AteSize <= aw
    BY <1>a, <1>16, AtePlace, Sizes DEF Words
  <2>4. check_erased(flash, dw, aw) /\ check_erased(flash, aw + w, aw + AteSize)
    BY <1>a, <1>16, AtePlace
  <2>5. aw + w \in Addresses /\ flash[aw + w] = Erased
    BY <1>a, <1>16, AtePlace
  <2>6. v \in Block /\ v.kind # "clash"
    BY <1>a, <1>16, AtePlace, BlockTypes
  <2> HIDE DEF v
  <2>7. NoBlockReprogrammed'
    BY <1>0, <1>a, <2>1, <2>5, <2>6, ProgramErased DEF NoBlockReprogrammed
  <2>a. \A a \in Addresses : a # aw + w => flash'[a] = flash[a]
    BY <1>0, <2>1
  <2>8. check_erased(flash', dw, aw)
    <3>1. aw + w >= aw /\ aw + w \in Int /\ aw \in Int /\ dw \in Int
      BY <1>0, <2>2
    <3> QED BY <2>4, <2>a, <3>1, KeepsErased
  <2>9. CASE w + 1 < AteSize
    <3>1. block' = block + 1 /\ fs' = fs /\ todo' = todo
      BY <1>16, <2>9 DEF ate_wrt
    <3>2. check_erased(flash, aw + (w + 1), aw + AteSize)
      BY <1>0, <2>2, <2>4, SmallerGap, Sizes
    <3>3. check_erased(flash', aw + (w + 1), aw + AteSize)
      <4>1. /\ aw + w \in Int /\ aw + (w + 1) \in Int /\ aw + AteSize \in Int
            /\ aw + w < aw + (w + 1)
        BY <1>0, <2>2, Sizes
      <4> QED BY <2>a, <3>2, <4>1, KeepsErased
    <3>4. Entry' = Entry /\ StoreRuns' /\ block' - L = w + 1
      BY <1>0, <2>0, <2>1, <3>1 DEF Entry, StoreRuns
    <3>5. StoreGap'
      BY <1>0, <1>a, <2>0, <2>1, <2>2, <2>8, <3>1, <3>3, <3>4 DEF StoreGap, StoreRuns
    <3> QED BY <1>a, <2>1, <2>7, <3>1, <3>5 DEF GapInv, IdleGap, StoreRuns,
          ReadyInitialized, CursorAbove
  <2>10. CASE ~(w + 1 < AteSize)
    <3>1. fs' = [fs EXCEPT !.ate_wra = @ - AteSize] /\ block' = 0
      BY <1>16, <2>10 DEF ate_wrt, NextEntry
    <3>2. fs'.ate_wra = aw - AteSize /\ fs'.data_wra_offset = dw
      BY <1>0, <3>1 DEF FsType
    <3>3. GapErased'
      BY <1>0, <2>8, <3>2, Sizes DEF GapErased
    <3>4. CursorAbove'
      BY <1>0, <1>a, <2>1, <3>2, Sizes DEF CursorAbove, EmdsTypeOK
    <3> QED BY <1>a, <2>1, <2>7, <3>1, <3>3, <3>4 DEF GapInv, IdleGap, StoreGap, StoreRuns,
          ReadyInitialized
  <2> QED BY <2>9, <2>10
<1>17. CASE StoreReturns
  <2>1. /\ UNCHANGED <<flash, fs, emds_initialized, thread, cursor>>
        /\ isr \in {"planned", "last"} /\ todo = <<>> /\ ~emds_ready'
    BY <1>17 DEF StoreReturns, flash_vars, call_vars
  <2>2. isr' \in {"halted", "off"}
    BY <1>17 DEF StoreReturns
  <2>3. GapErased' /\ emds_initialized
    BY <1>a, <2>1 DEF StoreGap, GapErased
  <2> QED BY <1>a, <2>1, <2>2, <2>3 DEF GapInv, NoBlockReprogrammed, IdleGap, StoreGap,
        ReadyInitialized, CursorAbove
<1>18. CASE PowerLoss
  <2>1. /\ flash' = flash /\ ~emds_ready' /\ ~emds_initialized' /\ thread' = "idle"
        /\ isr' = "off"
    BY <1>18 DEF PowerLoss
  <2> QED BY <1>a, <2>1 DEF GapInv, NoBlockReprogrammed, IdleGap, StoreGap,
        ReadyInitialized, CursorAbove
<1> QED BY <1>1, <1>2, <1>3, <1>4, <1>5, <1>6, <1>7, <1>8, <1>9, <1>10, <1>11, <1>12,
       <1>13, <1>14, <1>15, <1>16, <1>17, <1>18, <1>19 DEF EmdsNext

(* In a sound area, emds_store never programs a block that is not erased,  *)
(* whatever power losses, invalidations and earlier stores came before.    *)
THEOREM EmdsNoBlockReprogrammed ==
    ASSUME SoundArea
    PROVE  EmdsSpec => []NoBlockReprogrammed
<1>1. EmdsSpec => []TypeInv
  BY TypeInit, TypeStep, PTL DEF EmdsSpec
<1>2. EmdsInit => GapInv
  BY GapInit
<1>3. TypeInv /\ GapInv /\ [EmdsNext]_emds_vars => GapInv'
  BY GapStep
<1>4. GapInv => NoBlockReprogrammed
  BY DEF GapInv
<1> QED BY <1>1, <1>2, <1>3, <1>4, PTL DEF EmdsSpec

-----------------------------------------------------------------------------
(* Readiness.  An area with room for more than one ATE besides the end     *)
(* mark, as any area of a sector or more is.                               *)
RoomyArea == SoundArea /\ Size > 2 * AteSize

(* While the module is ready, or about to be, an empty area has room for   *)
(* the entries; while it is ready, so has what is left of this one.        *)
FitsInv ==
    /\ emds_ready \/ thread \in {"invalidate", "erase"} =>
           emds_entries_size(Reserved) <= Size - AteSize
    /\ emds_ready /\ isr = "off" =>
           emds_entries_size(Reserved) <= emds_flash_free_space_get(fs)

\* Taking back the entry that was added last gives the list as it was.
LEMMA ReservedAdd ==
    ASSUME EmdsTypeOK, NEW id \in DynamicIds, emds_entry_add(id)
    PROVE  Reserved' = Reserved
<1>1. /\ thread = "idle" /\ thread' = "add" /\ emds_dynamic_entries \in Seq(Ids) /\ id \in Ids
      /\ emds_dynamic_entries' = Append(emds_dynamic_entries, id)
  BY IdTypes DEF emds_entry_add, CallBegins, ThreadAt, EmdsTypeOK
<1>2. PICK e \in Seq(Ids) : e = emds_dynamic_entries
  BY <1>1
<1>3. SubSeq(Append(e, id), 1, Len(Append(e, id)) - 1) = e
  <2>1. Append(e, id) \in Seq(Ids) /\ Len(Append(e, id)) = Len(e) + 1 /\ Len(e) \in Nat
    BY <1>1
  <2>2. \A i \in 1 .. Len(e) : Append(e, id)[i] = e[i]
    BY <1>1
  <2>3. PICK u : u = Append(e, id)
    OBVIOUS
  <2>4. SubSeq(u, 1, Len(e)) = e
    BY <2>1, <2>2, <2>3
  <2> QED BY <2>1, <2>3, <2>4
<1> QED BY <1>1, <1>2, <1>3 DEF Reserved

\* Outside emds_entry_add every registered entry is reserved.
LEMMA ReservedAll ==
    thread # "add" => Reserved = emds_dynamic_entries /\ Promised = Registered
BY DEF Reserved, Promised, Registered

\* What is reserved depends on the list and on the call under way only.
LEMMA ReservedSame ==
    ASSUME UNCHANGED emds_dynamic_entries, (thread = "add") <=> (thread' = "add")
    PROVE  Reserved' = Reserved /\ Promised' = Promised
BY DEF Reserved, Promised

\* The last place for an ATE is the end of the area.
LEMMA LastAteAddr ==
    /\ Size - AteSize \in AteAddrs
    /\ \A a \in AteAddrs : a \in Nat /\ a <= Size - AteSize /\ a + AteSize <= Size
<1>1. Size % AteSize = 0 /\ Size \in Nat /\ AteSize \in Nat \ {0} /\ Size > AteSize
  BY EmdsAssumption
<1>2. (Size - AteSize) % AteSize = Size % AteSize
  <2>1. Size \in Int /\ AteSize \in Nat \ {0}
    BY <1>1
  <2> QED BY <2>1, RemainderBelow, Zenon
<1> QED BY <1>1, <1>2 DEF AteAddrs

\* An erased ATE is recognised as such.
LEMMA ErasedAte ==
    ASSUME NEW f, NEW a \in Int, \A w \in Words : f[a + w] = Erased
    PROVE  ate_check(f, a) = "ERASED"
<1>1. 0 \in Words /\ a + 0 = a
  BY Sizes DEF Words
<1>2. f[a + 0] # Zero /\ f[a].kind # "ate"
  BY <1>1, BlockTypes
<1>3. ~ \A w \in Words : f[a + w] = Zero
  BY <1>1, <1>2
<1> QED BY <1>2, <1>3 DEF ate_check

\* ate_last_recover finds an erased area empty.
LEMMA ErasedRecover ==
    ASSUME NEW f, check_erased(f, 0, Size), NEW s \in FsType, NEW t \in ate_last_recover(f, s)
    PROVE  t.ate_wra = Size - AteSize /\ t.data_wra_offset = 0
<1>1. \A a \in AteAddrs : ate_check(f, a) = "ERASED"
  <2> SUFFICES ASSUME NEW a \in AteAddrs PROVE \A w \in Words : f[a + w] = Erased
    BY ErasedAte, LastAteAddr
  <2> SUFFICES ASSUME NEW w \in Words PROVE f[a + w] = Erased
    OBVIOUS
  <2>1. a + w \in Addresses /\ 0 <= a + w /\ a + w < Size
    BY LastAteAddr, Sizes DEF Words, Addresses
  <2> QED BY <2>1 DEF check_erased
<1>2. LastAtes(f) = {Size - AteSize}
  BY <1>1, LastAteAddr, Sizes DEF LastAtes
<1>3. DataEnds(f) = {0}
  BY <1>1 DEF DataEnds
<1>4. t = RecoverAt(f, s, Size - AteSize, 0)
  BY <1>2, <1>3 DEF ate_last_recover
<1> QED BY <1>4 DEF RecoverAt, FsType

\* Every step preserves that the entries fit.
LEMMA FitsStep ==
    ASSUME RoomyArea, TypeInv, GapInv, FitsInv, [EmdsNext]_emds_vars
    PROVE  FitsInv'
<1>0. fs \in FsType /\ EmdsTypeOK
  BY DEF TypeInv, EmdsTypeOK, FsType
<1>a. ReadyInitialized
  BY DEF GapInv
<1>1. ASSUME UNCHANGED <<fs, Reserved, isr>>,
             emds_ready' => emds_ready,
             thread' \in {"invalidate", "erase"} => emds_ready \/ thread \in {"invalidate", "erase"}
      PROVE  FitsInv'
  BY <1>1 DEF FitsInv
<1>2. ASSUME UNCHANGED <<emds_dynamic_entries, thread>>, isr' # "off", emds_ready' => emds_ready
      PROVE  FitsInv'
  BY <1>2, ReservedSame DEF FitsInv
<1>b. ASSUME UNCHANGED emds_dynamic_entries, thread # "add", thread' # "add"
      PROVE  UNCHANGED Reserved
  BY <1>b, ReservedSame
<1>3. CASE UNCHANGED emds_vars
  BY <1>1, <1>3, ReservedSame DEF emds_vars
<1>4. CASE emds_init
  <2>1. ~emds_ready' /\ thread' = "idle"
    BY <1>4, <1>a DEF emds_init, ThreadAt, call_vars, ReadyInitialized
  <2> QED BY <2>1 DEF FitsInv
<1>5. ASSUME NEW id \in DynamicIds, emds_entry_add(id) PROVE FitsInv'
  <2>1. UNCHANGED <<fs, isr, emds_ready>> /\ thread' = "add"
    BY <1>5 DEF emds_entry_add, flash_vars, store_vars
  <2> QED BY <1>0, <1>1, <1>5, <2>1, ReservedAdd
<1>19. CASE EntryAddReturns
  BY <1>19 DEF EntryAddReturns, FitsInv
<1>6. CASE emds_load
  <2>1. UNCHANGED <<fs, isr, emds_ready, thread, emds_dynamic_entries>>
    BY <1>6 DEF emds_load, flash_vars, call_vars, store_vars
  <2> QED BY <1>1, <2>1, ReservedSame
<1>7. CASE emds_prepare
  <2>1. /\ UNCHANGED <<fs, isr, emds_ready, emds_dynamic_entries>> /\ thread = "idle"
        /\ thread' = "invalidate" /\ Fits(Size - AteSize)
    BY <1>7 DEF emds_prepare, MayDelete, CallBegins, ThreadAt, flash_vars, store_vars
  <2>2. Reserved' = Reserved /\ Reserved = emds_dynamic_entries
    BY <1>b, <2>1, ReservedAll
  <2> QED BY <2>1, <2>2 DEF FitsInv, Fits
<1>8. CASE old_entries_invalidate
  <2>1. UNCHANGED <<fs, isr, emds_ready, thread, emds_dynamic_entries>>
    BY <1>8 DEF old_entries_invalidate, store_vars
  <2> QED BY <1>1, <2>1, ReservedSame
<1>9. CASE InvalidateFails
  <2>1. /\ UNCHANGED <<fs, isr, emds_ready, emds_dynamic_entries>>
        /\ thread = "invalidate" /\ thread' = "idle"
    BY <1>9 DEF InvalidateFails, ThreadAt, flash_vars, store_vars
  <2> QED BY <1>1, <1>b, <2>1
<1>10. CASE emds_flash_prepare
  <2>1. /\ UNCHANGED <<isr, emds_dynamic_entries>> /\ thread = "invalidate"
        /\ thread' \in {"erase", "idle"}
    BY <1>10 DEF emds_flash_prepare, PrepareReturns, ThreadAt, store_vars
  <2>4. Reserved' = Reserved /\ Reserved = emds_dynamic_entries
    BY <1>b, <2>1, ReservedAll
  <2>2. CASE MustErase
    BY <1>1, <1>10, <2>1, <2>2, <2>4 DEF emds_flash_prepare
  <2>3. CASE ~MustErase
    <3>1. fs' = [fs EXCEPT !.is_prepeared = TRUE] /\ Fits(emds_flash_free_space_get(fs))
      BY <1>10, <2>3 DEF emds_flash_prepare, PrepareReturns, MustErase
    <3>2. emds_flash_free_space_get(fs') = emds_flash_free_space_get(fs)
      BY <1>0, <3>1 DEF emds_flash_free_space_get, FsType
    <3> QED BY <2>1, <2>4, <3>1, <3>2 DEF FitsInv, Fits
  <2> QED BY <2>2, <2>3
<1>11. CASE emds_clear
  <2>1. /\ UNCHANGED <<fs, isr, emds_ready, emds_dynamic_entries>>
        /\ thread = "idle" /\ thread' = "clear"
    BY <1>11 DEF emds_clear, MayDelete, CallBegins, ThreadAt, flash_vars, store_vars
  <2> QED BY <1>1, <1>b, <2>1
<1>12. CASE EraseSector
  <2>1. UNCHANGED <<fs, isr, emds_ready, thread, emds_dynamic_entries>>
    BY <1>12 DEF EraseSector, store_vars
  <2> QED BY <1>1, <2>1, ReservedSame
<1>13. CASE emds_flash_clear
  <2>1. PICK s \in ate_last_recover(flash, fs) : EraseReturns(s, FALSE)
    BY <1>13 DEF emds_flash_clear
  <2>2. s \in FsType /\ s.ate_wra = Size - AteSize /\ s.data_wra_offset = 0
    <3>1. check_erased(flash, 0, Size) /\ flash \in [Addresses -> Block]
      BY <1>13 DEF emds_flash_clear, TypeInv, EmdsTypeOK
    <3> QED BY <1>0, <2>1, <3>1, ErasedRecover, RecoverType
  <2>3. fs'.ate_wra = Size - AteSize /\ fs'.data_wra_offset = 0
    BY <2>1, <2>2 DEF EraseReturns, PrepareReturns, FsType
  <2>4. emds_flash_free_space_get(fs') = Size - AteSize
    BY <2>3, Sizes DEF emds_flash_free_space_get, RoomyArea
  <2>5. /\ emds_dynamic_entries' = emds_dynamic_entries /\ thread' = "idle"
        /\ emds_ready' => emds_ready \/ thread = "erase"
        /\ thread \in {"erase", "clear"}
    BY <1>13, <2>1 DEF emds_flash_clear, EraseReturns, PrepareReturns, ThreadAt
  <2>6. Reserved' = Reserved
    BY <1>b, <2>5
  <2> QED BY <2>4, <2>5, <2>6 DEF FitsInv
<1>14. CASE EraseFails
  <2>1. /\ thread' = "idle" /\ UNCHANGED <<fs, emds_ready, emds_dynamic_entries, isr>>
        /\ thread = "clear"
    BY <1>14 DEF EraseFails, EraseReturns, ThreadAt, store_vars, RoomyArea, SoundArea
  <2> QED BY <1>1, <1>b, <2>1
<1>15. ASSUME NEW e \in BOOLEAN, emds_store(e) PROVE FitsInv'
  <2>1. isr' # "off" /\ UNCHANGED <<emds_dynamic_entries, thread, emds_ready>>
    BY <1>15 DEF emds_store, call_vars
  <2> QED BY <1>2, <2>1
<1>16. CASE StoreSkips \/ data_wrt \/ ate_wrt
  <2>1. isr' # "off" /\ UNCHANGED <<emds_dynamic_entries, thread, emds_ready>>
    BY <1>16 DEF StoreSkips, data_wrt, ate_wrt, Storing, call_vars
  <2> QED BY <1>2, <2>1
<1>17. CASE StoreReturns
  <2>1. ~emds_ready' /\ UNCHANGED <<emds_dynamic_entries, thread>>
    BY <1>17 DEF StoreReturns, call_vars
  <2>2. UNCHANGED Reserved
    BY <2>1, ReservedSame
  <2> QED BY <2>1, <2>2 DEF FitsInv
<1>18. CASE PowerLoss
  BY <1>18 DEF PowerLoss, FitsInv
<1> QED BY <1>3, <1>4, <1>5, <1>6, <1>7, <1>8, <1>9, <1>10, <1>11, <1>12,
       <1>13, <1>14, <1>15, <1>16, <1>17, <1>18, <1>19 DEF EmdsNext

(* emds_is_ready() keeps its promise, for every set of entries and every   *)
(* history of the area: the blocks between the data and the ATEs are       *)
(* erased, and there are enough of them for every registered entry.        *)
THEOREM EmdsReadyFits ==
    ASSUME RoomyArea
    PROVE  EmdsSpec => []ReadyFits
<1>1. EmdsSpec => []TypeInv
  BY TypeInit, TypeStep, PTL DEF EmdsSpec
<1>2. EmdsInit => GapInv /\ FitsInv
  <2>1. EmdsInit => FitsInv
    BY DEF EmdsInit, FitsInv
  <2> QED BY <2>1, GapInit
<1>3. TypeInv /\ GapInv /\ FitsInv /\ [EmdsNext]_emds_vars => GapInv' /\ FitsInv'
  BY GapStep, FitsStep DEF RoomyArea
<1>4. GapInv /\ FitsInv => ReadyFits
  BY DEF GapInv, IdleGap, ReadyInitialized, GapErased, FitsInv, ReadyFits
<1> QED BY <1>1, <1>2, <1>3, <1>4, PTL DEF EmdsSpec

-----------------------------------------------------------------------------
(* What a load reads.  Blank places for an ATE, valid ATEs, where the data *)
(* of an ATE end, and that they are still there.                           *)
Blanks(f) == {a \in AteAddrs : \A w \in Words : f[a + w] = Erased}
Valid(f) == {a \in AteAddrs : ate_check(f, a) = "VALID"}
DataEnd(f, a) == f[a].at + f[a].len
Holds(f, a) ==
    \A w \in 0 .. f[a].len - 1 : f[f[a].at + w] = DataBlock(f[a].id, f[a].store, w)
Flash == [Addresses -> Block]

\* The places for ATEs are in the area, one after the other.
LEMMA AtePlaces ==
    /\ 0 \in Words
    /\ \A a \in AteAddrs : a \in Addresses /\ a \in Nat /\ a + 0 = a
    /\ \A a \in AteAddrs, w \in Words : a + w \in Addresses /\ w \in Nat
    /\ \A a, b \in AteAddrs : a < b => a + AteSize <= b
    /\ \A a \in AteAddrs : a >= AteSize => a - AteSize \in AteAddrs
<1>1. 0 \in Words
  BY Sizes DEF Words
<1>2. \A a \in AteAddrs : a \in Addresses /\ a \in Nat /\ a + 0 = a
  BY LastAteAddr, Sizes DEF Addresses
<1>3. \A a \in AteAddrs, w \in Words : a + w \in Addresses /\ w \in Nat
  BY LastAteAddr, Sizes DEF Addresses, Words
<1>4. ASSUME NEW a \in AteAddrs, NEW b \in AteAddrs, a < b PROVE a + AteSize <= b
  <2>1. a \in Int /\ b \in Int /\ a % AteSize = 0 /\ b % AteSize = 0 /\ AteSize \in Nat \ {0}
    BY <1>2, Sizes DEF AteAddrs
  <2>2. PICK p \in Int : a = p * AteSize + 0
    BY <2>1, Quotient
  <2>3. PICK q \in Int : b = q * AteSize + 0
    BY <2>1, Quotient
  <2>4. p < q
    <3>1. CASE q <= p
      <4>1. q * AteSize <= p * AteSize
        BY <2>1, <3>1
      <4> QED BY <1>4, <2>1, <2>2, <2>3, <4>1
    <3> QED BY <3>1
  <2>5. (p + 1) * AteSize <= q * AteSize
    BY <2>1, <2>4
  <2>6. (p + 1) * AteSize = p * AteSize + AteSize
    BY <2>1
  <2> QED BY <2>1, <2>2, <2>3, <2>5, <2>6
<1>5. ASSUME NEW a \in AteAddrs, a >= AteSize PROVE a - AteSize \in AteAddrs
  <2>1. a \in Int /\ AteSize \in Nat \ {0} /\ a % AteSize = 0
    BY <1>2, Sizes DEF AteAddrs
  <2>2. (a - AteSize) % AteSize = a % AteSize
    BY <2>1, RemainderBelow, Zenon
  <2>3. a - AteSize \in 0 .. Size - AteSize
    BY <1>5, <2>1, LastAteAddr, Sizes
  <2> QED BY <2>1, <2>2, <2>3 DEF AteAddrs
<1> QED BY <1>1, <1>2, <1>3, <1>4, <1>5

\* What ate_check makes of a place.
LEMMA Checked ==
    ASSUME NEW f, NEW a \in AteAddrs
    PROVE  /\ a \in Valid(f) <=>
                f[a].kind = "ate" /\ \A w \in Words : f[a + w] = [f[a] EXCEPT !.word = w]
           /\ a \in Blanks(f) <=> ate_check(f, a) = "ERASED"
<1>1. 0 \in Words /\ a + 0 = a
  BY AtePlaces
<1>2. (\A w \in Words : f[a + w] = Zero) => f[a].kind = "zero"
  BY <1>1, BlockTypes
<1>3. (\A w \in Words : f[a + w] = Erased) => f[a].kind = "erased"
  BY <1>1, BlockTypes
<1> QED BY <1>2, <1>3 DEF Valid, Blanks, ate_check

\* All blocks of a valid ATE are of its kind.
LEMMA ValidBlocks ==
    ASSUME NEW f \in Flash, NEW a \in Valid(f), NEW w \in Words
    PROVE  f[a + w] = [f[a] EXCEPT !.word = w] /\ f[a + w].kind = "ate" /\ f[a] \in Block
<1>1. a \in AteAddrs
  BY DEF Valid
<1>2. f[a].kind = "ate" /\ f[a + w] = [f[a] EXCEPT !.word = w]
  BY <1>1, Checked
<1>3. f[a] \in Block
  BY <1>1, AtePlaces DEF Flash
<1> QED BY <1>2, <1>3 DEF Block

\* Where only other blocks are written, or blocks are erased, no ATE becomes
\* valid.
LEMMA ValidSame ==
    ASSUME NEW f \in Flash, NEW g \in Flash,
           \A b \in Addresses : g[b] = f[b] \/ g[b].kind # "ate"
    PROVE  \A a \in Valid(g) : a \in Valid(f) /\ g[a] = f[a]
<1> SUFFICES ASSUME NEW a \in Valid(g) PROVE a \in Valid(f) /\ g[a] = f[a]
  OBVIOUS
<1>1. a \in AteAddrs /\ 0 \in Words /\ a + 0 = a
  BY AtePlaces DEF Valid
<1>2. \A w \in Words : /\ g[a + w] = f[a + w] /\ g[a + w].kind = "ate"
                        /\ g[a + w] = [g[a] EXCEPT !.word = w]
  BY <1>1, ValidBlocks, AtePlaces
<1>3. g[a] = f[a] /\ g[a].kind = "ate"
  <2>1. g[a + 0] = f[a + 0] /\ g[a + 0].kind = "ate"
    BY <1>1, <1>2
  <2> QED BY <1>1, <2>1
<1> QED BY <1>1, <1>2, <1>3, Checked

\* Data that are not overwritten are still there.
LEMMA HoldsSame ==
    ASSUME NEW f \in Flash, NEW g \in Flash, NEW a \in AteAddrs, g[a] = f[a],
           Holds(f, a), DataEnd(f, a) <= Size,
           \A b \in Addresses : b < DataEnd(f, a) /\ f[b].kind = "data" => g[b] = f[b]
    PROVE  Holds(g, a)
<1>1. f[a] \in Block
  BY AtePlaces DEF Flash
<1>2. f[a].at \in Nat /\ f[a].len \in Nat
  BY <1>1 DEF Block
<1> SUFFICES ASSUME NEW w \in 0 .. f[a].len - 1
             PROVE  g[f[a].at + w] = DataBlock(f[a].id, f[a].store, w)
  BY DEF Holds
<1>3. f[a].at + w \in Addresses /\ f[a].at + w < DataEnd(f, a)
  BY <1>2, Sizes DEF DataEnd, Addresses
<1>4. f[f[a].at + w] = DataBlock(f[a].id, f[a].store, w)
  BY DEF Holds
<1> QED BY <1>3, <1>4, BlockTypes

\* Programming a block with data or zeros: what it does to blank places.
LEMMA BlanksSame ==
    ASSUME NEW f \in Flash, NEW c \in Addresses, NEW v \in Block, v.kind # "erased",
           NEW g \in Flash, g = [f EXCEPT ![c] = v]
    PROVE  /\ Blanks(g) \subseteq Blanks(f)
           /\ \A e \in Blanks(g) : c < e \/ c >= e + AteSize
           /\ \A e \in Blanks(f) : c < e \/ c >= e + AteSize => e \in Blanks(g)
<1>0. c \in Int
  BY Sizes DEF Addresses
<1>1. \A b \in Addresses : b # c => g[b] = f[b]
  BY DEF Flash
<1>2. g[c] # Erased
  BY BlockTypes DEF Flash
<1>3. ASSUME NEW e \in Blanks(g) PROVE e \in Blanks(f) /\ (c < e \/ c >= e + AteSize)
  <2>1. e \in AteAddrs /\ \A w \in Words : g[e + w] = Erased
    BY <1>3 DEF Blanks
  <2>2. \A w \in Words : e + w # c /\ e + w \in Addresses
    BY <1>2, <2>1, AtePlaces
  <2>3. c < e \/ c >= e + AteSize
    <3>1. CASE ~(c < e \/ c >= e + AteSize)
      <4>1. c - e \in Words /\ e + (c - e) = c
        BY <1>0, <2>1, <3>1, AtePlaces, Sizes DEF Words
      <4> QED BY <2>2, <4>1
    <3> QED BY <3>1
  <2> QED BY <1>1, <2>1, <2>2, <2>3 DEF Blanks
<1>4. ASSUME NEW e \in Blanks(f), c < e \/ c >= e + AteSize PROVE e \in Blanks(g)
  <2>1. e \in AteAddrs /\ \A w \in Words : f[e + w] = Erased
    BY <1>4 DEF Blanks
  <2>2. \A w \in Words : e + w # c
    BY <1>0, <1>4, <2>1, AtePlaces, Sizes DEF Words
  <2>3. \A w \in Words : e + w \in Addresses
    BY <2>1, AtePlaces
  <2> QED BY <1>1, <2>1, <2>2, <2>3 DEF Blanks
<1> QED BY <1>3, <1>4

\* A place whose blocks are as before is as valid as before.
LEMMA SamePlace ==
    ASSUME NEW f, NEW g, NEW a \in AteAddrs, \A u \in Words : g[a + u] = f[a + u]
    PROVE  g[a] = f[a] /\ (a \in Valid(g) <=> a \in Valid(f))
<1>1. g[a + 0] = f[a + 0] /\ a + 0 = a
  BY AtePlaces
<1>2. (\A u \in Words : g[a + u] = [g[a] EXCEPT !.word = u])
          <=> (\A u \in Words : f[a + u] = [f[a] EXCEPT !.word = u])
  BY <1>1
<1>3. a \in Valid(g) <=>
          g[a].kind = "ate" /\ \A u \in Words : g[a + u] = [g[a] EXCEPT !.word = u]
  BY Checked
<1>4. a \in Valid(f) <=>
          f[a].kind = "ate" /\ \A u \in Words : f[a + u] = [f[a] EXCEPT !.word = u]
  BY Checked
<1> QED BY <1>1, <1>2, <1>3, <1>4

(* The step from f to g programs block w of the ATE at p, whose blocks     *)
(* before are written.                                                     *)
AteStep(f, g, p, w, id, n, at, len) ==
    /\ f \in Flash /\ g \in Flash /\ p \in AteAddrs /\ w \in Words
    /\ id \in Nat /\ n \in Contents /\ at \in Nat /\ len \in Nat
    /\ g = [f EXCEPT ![p + w] = AteBlock(id, n, at, len, w)]
    /\ \A u \in Words : u < w => f[p + u] = AteBlock(id, n, at, len, u)
    /\ \A u \in Words : u >= w => f[p + u] = Erased

\* Such a step makes the ATE valid with its last block, and leaves the other
\* ATEs as they are.
LEMMA AteWritten ==
    ASSUME NEW f, NEW g, NEW p, NEW w, NEW id, NEW n, NEW at, NEW len,
           AteStep(f, g, p, w, id, n, at, len)
    PROVE  /\ \A a \in Valid(g) : a # p => a \in Valid(f) /\ g[a] = f[a]
           /\ \A a \in Valid(f) : a # p /\ a \in Valid(g) /\ g[a] = f[a]
           /\ w + 1 < AteSize => p \notin Valid(g)
           /\ w + 1 = AteSize => p \in Valid(g) /\ g[p] = AteBlock(id, n, at, len, 0)
<1> /\ f \in Flash /\ g \in Flash /\ p \in AteAddrs /\ w \in Words
    /\ id \in Nat /\ n \in Contents /\ at \in Nat /\ len \in Nat
    /\ g = [f EXCEPT ![p + w] = AteBlock(id, n, at, len, w)]
    /\ \A u \in Words : u < w => f[p + u] = AteBlock(id, n, at, len, u)
    /\ \A u \in Words : u >= w => f[p + u] = Erased
  BY DEF AteStep
<1>0. w \in Nat /\ w < AteSize /\ p \in Nat /\ p + w \in Addresses /\ 0 \in Words
  BY AtePlaces, Sizes DEF Words
<1>1. \A b \in Addresses : b # p + w => g[b] = f[b]
  BY <1>0 DEF Flash
<1>2. g[p + w] = AteBlock(id, n, at, len, w)
  BY <1>0 DEF Flash
<1>3. \A a \in AteAddrs : a # p => \A u \in Words : g[a + u] = f[a + u]
  <2> SUFFICES ASSUME NEW a \in AteAddrs, a # p, NEW u \in Words PROVE a + u # p + w
    BY <1>1, AtePlaces
  <2>1. a \in Nat /\ u \in Nat /\ u < AteSize
    BY AtePlaces, Sizes DEF Words
  <2>2. a + AteSize <= p \/ p + AteSize <= a
    BY <1>0, <2>1, AtePlaces
  <2> QED BY <1>0, <2>1, <2>2, Sizes
<1>4. \A a \in AteAddrs : a # p => g[a] = f[a] /\ (a \in Valid(g) <=> a \in Valid(f))
  <2> SUFFICES ASSUME NEW a \in AteAddrs, a # p
               PROVE  g[a] = f[a] /\ (a \in Valid(g) <=> a \in Valid(f))
    OBVIOUS
  <2> QED BY <1>3, SamePlace, ZenonT(60)
<1>5. p \notin Valid(f)
  <2>1. f[p + w] = Erased
    BY <1>0
  <2> QED BY <2>1, ValidBlocks, BlockTypes
<1>6. ASSUME w + 1 < AteSize PROVE p \notin Valid(g)
  <2>1. w + 1 \in Words /\ p + (w + 1) \in Addresses
    BY <1>0, <1>6, AtePlaces, Sizes DEF Words
  <2>2. g[p + (w + 1)] = Erased
    <3>1. p + (w + 1) # p + w /\ w + 1 >= w
      BY <1>0
    <3> QED BY <1>1, <2>1, <3>1
  <2> QED BY <2>1, <2>2, ValidBlocks, BlockTypes
<1>7. ASSUME w + 1 = AteSize PROVE p \in Valid(g) /\ g[p] = AteBlock(id, n, at, len, 0)
  <2>1. \A u \in Words : g[p + u] = AteBlock(id, n, at, len, u)
    <3> SUFFICES ASSUME NEW u \in Words PROVE g[p + u] = AteBlock(id, n, at, len, u)
      OBVIOUS
    <3>1. u \in Nat /\ (u = w \/ u < w) /\ p + u \in Addresses
      BY <1>0, <1>7, AtePlaces, Sizes DEF Words
    <3>2. CASE u = w
      BY <1>2, <3>2
    <3>3. CASE u < w
      <4>1. p + u # p + w
        BY <1>0, <3>1, <3>3
      <4> QED BY <1>1, <3>1, <3>3, <4>1
    <3> QED BY <3>1, <3>2, <3>3
  <2>2. g[p + 0] = AteBlock(id, n, at, len, 0) /\ p + 0 = p
    BY <1>0, <2>1
  <2>3. \A u \in Words : g[p + u] = [g[p] EXCEPT !.word = u]
    BY <2>1, <2>2 DEF AteBlock
  <2>4. g[p].kind = "ate"
    BY <2>2 DEF AteBlock
  <2> QED BY <2>2, <2>3, <2>4, Checked
<1>8. \A a \in Valid(f) : a \in AteAddrs
  BY DEF Valid
<1>9. \A a \in Valid(g) : a \in AteAddrs
  BY DEF Valid
<1> QED BY <1>4, <1>5, <1>6, <1>7, <1>8, <1>9

\* A set of naturals below a bound has a greatest element.
LEMMA GreatestNatural ==
    ASSUME NEW n \in Nat, NEW S \in SUBSET (0 .. n), S # {}
    PROVE  \E a \in S : \A b \in S : b <= a
<1> DEFINE T == {n - a : a \in S}
<1>1. T \in SUBSET Nat /\ T # {}
  <2>1. \A a \in S : n - a \in Nat
    OBVIOUS
  <2> QED BY <2>1
<1>2. PICK t \in T : \A u \in T : t <= u
  BY <1>1, LeastNatural
<1>3. PICK a \in S : t = n - a
  BY <1>2
<1>4. \A b \in S : n - a <= n - b
  BY <1>2, <1>3
<1> QED BY <1>3, <1>4

\* ate_last_recover stops at the highest blank place, and remembers that
\* the area must be erased if there is none.
LEMMA RecoverBlank ==
    ASSUME NEW f, NEW s \in FsType, NEW t \in ate_last_recover(f, s)
    PROVE  /\ Blanks(f) = {} => t.force_erase
           /\ Blanks(f) # {} => t.ate_wra \in Blanks(f) /\ \A e \in Blanks(f) : e <= t.ate_wra
<1>1. Blanks(f) = {a \in AteAddrs : ate_check(f, a) = "ERASED"}
  BY Checked DEF Blanks
<1>2. LastAtes(f) = {a \in Blanks(f) : \A b \in Blanks(f) : b <= a}
  BY <1>1 DEF LastAtes
<1>3. CASE Blanks(f) = {}
  <2>1. t = [s EXCEPT !.ate_wra = 0, !.data_wra_offset = 0, !.force_erase = TRUE]
    BY <1>2, <1>3 DEF ate_last_recover
  <2> QED BY <1>3, <2>1 DEF FsType
<1>4. CASE Blanks(f) # {}
  <2>1. Blanks(f) \in SUBSET (0 .. Size - AteSize) /\ Size - AteSize \in Nat
    BY Sizes DEF Blanks, AteAddrs
  <2>2. LastAtes(f) # {}
    BY <1>2, <1>4, <2>1, GreatestNatural
  <2>3. PICK a \in LastAtes(f), d \in DataEnds(f) : t = RecoverAt(f, s, a, d)
    BY <2>2 DEF ate_last_recover
  <2>4. t.ate_wra = a
    BY <2>3 DEF RecoverAt, FsType
  <2> QED BY <1>2, <1>4, <2>3, <2>4
<1> QED BY <1>3, <1>4

-----------------------------------------------------------------------------
(* The invariant of the ATEs.  An application that deletes while it is not *)
(* ready, on a device whose area held no ATE at first.                     *)
DeleteUse == SoundArea /\ ~WhileReady
CleanStart == \A f \in InitialFlashes : \A a \in Addresses : f[a].kind # "ate"

(* The data of the valid ATEs are not being, and have not been, erased.    *)
Kept == ~clear_cut /\ thread # "clear"

(* A blank place that separates the data of the valid ATEs from the ATEs:  *)
(* where ate_last_recover may stop.                                        *)
Mark(e) == e \in Blanks(flash) /\ (Kept => \A a \in Valid(flash) : DataEnd(flash, a) <= e)

(* Valid ATEs are of the last store and their data are there; no block of  *)
(* an ATE is below a blank place, and one such place is a mark.            *)
FlashInv ==
    /\ \A a \in Valid(flash) : /\ flash[a].store = stores
                               /\ DataEnd(flash, a) <= Size
                               /\ Kept => Holds(flash, a)
    /\ \A e \in Blanks(flash), b \in Addresses : flash[b].kind = "ate" => b >= e + AteSize
    /\ Valid(flash) # {} => \E e \in AteAddrs : Mark(e)

(* ate_wra is at the mark.                                                 *)
WalkInv ==
    isr = "off" /\ emds_initialized =>
        /\ Valid(flash) # {} => Mark(fs.ate_wra)
        /\ emds_ready \/ ~fs.force_erase => fs.ate_wra \in Blanks(flash)

(* What emds_prepare and emds_clear have done so far.                      *)
DeleteInv ==
    /\ thread = "invalidate" =>
         \A b \in Addresses : fs.ate_wra + AteSize <= b /\ b < cursor => flash[b] = Zero
    /\ thread \in {"erase", "clear"} => check_erased(flash, 0, cursor)
    /\ thread = "erase" => Valid(flash) = {}

(* When a store may begin no ATE is valid, and none is blank above ate_wra. *)
ReadyInv ==
    emds_ready =>
        /\ thread \in {"idle", "add"} /\ fs.is_prepeared
        /\ isr = "off" => Valid(flash) = {}
        /\ \A a \in Blanks(flash) : a <= fs.ate_wra

(* The blocks of the entry that the store is at.                           *)
PartWritten ==
    LET len == Blocks[Entry]
        at == IF block < len THEN fs.data_wra_offset ELSE fs.data_wra_offset - len
    IN  /\ at >= 0
        /\ \A w \in 0 .. len - 1 : w < block => flash[at + w] = DataBlock(Entry, ram[Entry], w)
        /\ \A w \in Words : len + w < block =>
               flash[fs.ate_wra + w] = AteBlock(Entry, ram[Entry], at, len, w)

StoreInv ==
    isr \in {"planned", "last"} =>
        /\ emds_ready /\ ~clear_cut /\ fs.ate_wra \in AteAddrs
        /\ \A a \in Valid(flash) : /\ a > fs.ate_wra
                                   /\ DataEnd(flash, a) <= fs.data_wra_offset
                                   /\ fs.data_wra_offset <= fs.ate_wra
        /\ todo = <<>> \/ block = 0 => fs.ate_wra \in Blanks(flash)
        /\ StoreRuns /\ block > 0 => PartWritten
        /\ \A i \in DOMAIN todo : todo[i] \in Registered
        /\ \A id \in Registered : ram[id] = stores

AtesInv == FlashInv /\ WalkInv /\ DeleteInv /\ ReadyInv /\ StoreInv

\* The invariant of the ATEs holds at start up.
LEMMA AtesInit == CleanStart /\ EmdsInit => AtesInv
<1> SUFFICES ASSUME CleanStart, EmdsInit PROVE AtesInv
  OBVIOUS
<1>1. \A b \in Addresses : flash[b].kind # "ate"
  BY DEF CleanStart, EmdsInit
<1>2. flash \in Flash
  BY TypeInit DEF TypeInv, EmdsTypeOK, Flash
<1>3. Valid(flash) = {}
  <2> SUFFICES ASSUME NEW a \in Valid(flash) PROVE FALSE
    OBVIOUS
  <2>1. a \in AteAddrs
    BY DEF Valid
  <2> QED BY <1>1, <2>1, Checked, AtePlaces
<1>4. FlashInv
  BY <1>1, <1>3 DEF FlashInv
<1> QED BY <1>4 DEF EmdsInit, AtesInv, WalkInv, DeleteInv, ReadyInv, StoreInv

\* A step that leaves the flash alone, and the numbers of its ATEs.
LEMMA FlashQuiet ==
    ASSUME FlashInv, flash' = flash,
           Valid(flash) = {} \/ (stores' = stores /\ (Kept' => Kept))
    PROVE  FlashInv'
<1>1. CASE Valid(flash) = {}
  BY <1>1 DEF FlashInv
<1>2. CASE stores' = stores /\ (Kept' => Kept)
  BY <1>2 DEF FlashInv, Mark
<1> QED BY <1>1, <1>2

\* An erased area has no valid ATE, and all places are blank.
LEMMA ErasedPlaces ==
    ASSUME NEW f \in Flash, check_erased(f, 0, Size)
    PROVE  Valid(f) = {} /\ Blanks(f) = AteAddrs
<1>1. \A b \in Addresses : f[b] = Erased
  BY Sizes DEF check_erased, Addresses
<1>2. \A a \in AteAddrs : f[a] = Erased /\ \A w \in Words : f[a + w] = Erased
  BY <1>1, AtePlaces
<1>3. \A a \in AteAddrs : a \notin Valid(f)
  BY <1>2, Checked, BlockTypes
<1> QED BY <1>2, <1>3 DEF Valid, Blanks

\* Once the places above ate_wra are zeros there is no valid ATE, and no
\* blank place above it.
LEMMA Invalidated ==
    ASSUME EmdsTypeOK, FlashInv, Valid(flash) # {} => fs.ate_wra \in Blanks(flash),
           \A b \in Addresses : fs.ate_wra + AteSize <= b => flash[b] = Zero
    PROVE  Valid(flash) = {} /\ (fs.ate_wra \in AteAddrs => \A a \in Blanks(flash) : a <= fs.ate_wra)
<1>1. ASSUME NEW a \in Valid(flash) PROVE FALSE
  <2>1. a \in AteAddrs /\ a \in Addresses
    BY <1>1, AtePlaces DEF Valid
  <2>2. flash[a].kind = "ate"
    BY <2>1, <1>1, Checked
  <2>3. a >= fs.ate_wra + AteSize
    BY <1>1, <2>1, <2>2 DEF FlashInv
  <2>4. fs.ate_wra \in Int /\ a \in Int
    BY <2>1, AtePlaces, Sizes DEF EmdsTypeOK
  <2>5. flash[a] = Zero
    BY <2>1, <2>3, <2>4, Sizes
  <2> QED BY <2>2, <2>5, BlockTypes
<1>2. ASSUME NEW a \in Blanks(flash), fs.ate_wra \in AteAddrs PROVE a <= fs.ate_wra
  <2>1. a \in AteAddrs /\ a \in Addresses /\ a \in Nat /\ fs.ate_wra \in Nat
    BY <1>2, AtePlaces DEF Blanks
  <2>2. CASE a > fs.ate_wra
    <3>1. fs.ate_wra + AteSize <= a
      BY <1>2, <2>1, <2>2, AtePlaces
    <3>2. flash[a] = Zero
      BY <2>1, <3>1
    <3>3. flash[a + 0] = Erased /\ a + 0 = a
      BY <1>2, <2>1, AtePlaces DEF Blanks
    <3> QED BY <3>2, <3>3, BlockTypes
  <2> QED BY <2>1, <2>2
<1> QED BY <1>1, <1>2

\* A call of the application that leaves the flash and fs alone.
LEMMA AtesCall ==
    ASSUME DeleteUse, TypeInv, GapInv, AtesInv, flash' = flash, fs' = fs, stores' = stores,
           isr = "off", isr' = "off", emds_initialized' = emds_initialized,
           emds_ready' => emds_ready /\ thread' \in {"idle", "add"},
           Kept' => Kept, DeleteInv'
    PROVE  AtesInv'
<1>1. FlashInv' BY FlashQuiet DEF AtesInv
<1>2. WalkInv'
  BY DEF AtesInv, WalkInv, Mark
<1>3. ReadyInv'
  BY DEF AtesInv, ReadyInv
<1> QED BY <1>1, <1>2, <1>3 DEF AtesInv, StoreInv

\* Steps that leave the flash alone, outside a store.
LEMMA AtesQuiet ==
    ASSUME DeleteUse, TypeInv, GapInv, AtesInv,
           \/ emds_init \/ (\E id \in DynamicIds : emds_entry_add(id)) \/ EntryAddReturns
           \/ emds_load
           \/ emds_prepare \/ InvalidateFails \/ emds_flash_prepare \/ emds_clear
           \/ emds_flash_clear \/ EraseFails \/ PowerLoss
    PROVE  AtesInv'
<1>0. /\ FlashInv /\ WalkInv /\ DeleteInv /\ ReadyInv /\ StoreInv /\ EmdsTypeOK
      /\ flash \in Flash /\ fs \in FsType /\ fs.ate_wra \in Int /\ ReadyInitialized
  BY Sizes DEF AtesInv, TypeInv, EmdsTypeOK, Flash, FsType, GapInv
<1>1. CASE emds_init
  <2>1. /\ UNCHANGED <<flash, emds_ready, thread, cursor, isr, stores, clear_cut>>
        /\ isr = "off" /\ thread = "idle" /\ ~emds_ready /\ fs' \in ate_last_recover(flash, EmptyFs)
    BY <1>0, <1>1 DEF emds_init, ThreadAt, call_vars, store_vars, ghost_vars, ReadyInitialized
  <2>2. EmptyFs \in FsType
    BY Sizes DEF EmptyFs, FsType
  <2>3. /\ Blanks(flash) = {} => fs'.force_erase
        /\ Blanks(flash) # {} =>
             fs'.ate_wra \in Blanks(flash) /\ \A e \in Blanks(flash) : e <= fs'.ate_wra
    BY <2>1, <2>2, RecoverBlank
  <2>4. ASSUME Valid(flash) # {} PROVE Mark(fs.ate_wra)'
    <3>1. PICK e \in AteAddrs : Mark(e)
      BY <1>0, <2>4 DEF FlashInv
    <3>2. e \in Blanks(flash) /\ fs'.ate_wra \in Blanks(flash) /\ e <= fs'.ate_wra
      BY <2>3, <3>1 DEF Mark
    <3>3. e \in Int /\ fs'.ate_wra \in Int
      BY <3>2, AtePlaces DEF Blanks
    <3>4. Kept' => \A a \in Valid(flash) : DataEnd(flash, a) <= fs'.ate_wra
      <4> SUFFICES ASSUME Kept', NEW a \in Valid(flash) PROVE DataEnd(flash, a) <= fs'.ate_wra
        OBVIOUS
      <4>1. DataEnd(flash, a) <= e
        BY <2>1, <3>1 DEF Kept, Mark
      <4>2. flash[a] \in Block
        BY AtePlaces DEF Valid, Flash, TypeInv, EmdsTypeOK
      <4>3. DataEnd(flash, a) \in Nat
        BY <4>2 DEF DataEnd, Block
      <4> QED BY <3>2, <3>3, <4>1, <4>3
    <3> QED BY <2>1, <3>2, <3>4 DEF Mark
  <2>5. Kept' = Kept
    BY <2>1 DEF Kept
  <2>6. FlashInv'
    BY <1>0, <2>1, <2>5, FlashQuiet
  <2>7. WalkInv'
    BY <2>1, <2>3, <2>4 DEF WalkInv
  <2> QED BY <2>1, <2>6, <2>7 DEF AtesInv, DeleteInv, ReadyInv, StoreInv
<1>2. CASE (\E id \in DynamicIds : emds_entry_add(id)) \/ EntryAddReturns \/ emds_load
  <2>1. /\ UNCHANGED <<flash, fs, stores, isr, cursor, emds_initialized, clear_cut>>
        /\ isr = "off" /\ thread \in {"idle", "add"} /\ thread' \in {"idle", "add"}
        /\ (emds_ready' => emds_ready)
    BY <1>2 DEF emds_entry_add, EntryAddReturns, emds_load, CallBegins, ThreadAt, flash_vars,
       call_vars, store_vars, ghost_vars
  <2>2. DeleteInv' /\ Kept' = Kept
    BY <2>1 DEF DeleteInv, Kept
  <2> QED BY <2>1, <2>2, AtesCall
<1>3. CASE emds_prepare \/ emds_clear
  <2>1. /\ UNCHANGED <<flash, fs, stores, isr, emds_initialized, emds_ready, clear_cut>>
        /\ isr = "off" /\ thread = "idle" /\ ~emds_ready
        /\ \/ thread' = "invalidate" /\ cursor' = fs.ate_wra + AteSize
           \/ thread' = "clear" /\ cursor' = 0
    BY <1>3 DEF emds_prepare, emds_clear, MayDelete, DeleteUse, CallBegins, ThreadAt,
       flash_vars, store_vars, FirstOldAte
  <2>2. DeleteInv'
    BY <1>0, <2>1, Sizes DEF DeleteInv, check_erased, Addresses
  <2>3. Kept' => Kept
    BY <2>1 DEF Kept
  <2> QED BY <2>1, <2>2, <2>3, AtesCall
<1>4. CASE InvalidateFails
  <2>1. /\ UNCHANGED <<flash, fs, stores, isr, emds_initialized, emds_ready, clear_cut>>
        /\ isr = "off" /\ thread = "invalidate" /\ thread' = "idle"
    BY <1>4 DEF InvalidateFails, ThreadAt, flash_vars, store_vars, ghost_vars
  <2>2. DeleteInv' /\ Kept' = Kept
    BY <2>1 DEF DeleteInv, Kept
  <2> QED BY <2>1, <2>2, AtesCall
<1>5. CASE emds_flash_prepare
  <2>1. /\ UNCHANGED <<flash, stores, isr, emds_initialized, clear_cut>>
        /\ isr = "off" /\ thread = "invalidate" /\ cursor >= Size /\ emds_initialized /\ ~emds_ready
    BY <1>0, <1>5 DEF emds_flash_prepare, ThreadAt, store_vars, ghost_vars, ReadyInitialized,
       ReadyInv
  <2>2. \A b \in Addresses : fs.ate_wra + AteSize <= b => flash[b] = Zero
    BY <1>0, <2>1, Sizes DEF DeleteInv, Addresses, EmdsTypeOK
  <2>3. Valid(flash) # {} => fs.ate_wra \in Blanks(flash)
    BY <1>0, <2>1 DEF WalkInv, Mark
  <2>4. /\ Valid(flash) = {}
        /\ fs.ate_wra \in AteAddrs => \A a \in Blanks(flash) : a <= fs.ate_wra
    BY <1>0, <2>2, <2>3, Invalidated
  <2>5. FlashInv'
    BY <1>0, <2>1, <2>4, FlashQuiet
  <2>6. CASE MustErase
    <3>1. thread' = "erase" /\ cursor' = 0 /\ UNCHANGED <<fs, emds_ready>>
      BY <1>5, <2>6 DEF emds_flash_prepare
    <3>2. DeleteInv'
      BY <2>1, <2>4, <3>1, Sizes DEF DeleteInv, check_erased, Addresses
    <3>3. WalkInv'
      BY <1>0, <2>1, <2>4, <3>1 DEF WalkInv
    <3> QED BY <2>1, <2>5, <3>1, <3>2, <3>3 DEF AtesInv, ReadyInv, StoreInv
  <2>7. CASE ~MustErase
    <3>1. /\ thread' = "idle" /\ fs' = [fs EXCEPT !.is_prepeared = TRUE] /\ emds_ready'
          /\ ~fs.force_erase
      BY <1>5, <2>7 DEF emds_flash_prepare, PrepareReturns, MustErase
    <3>2. fs'.ate_wra = fs.ate_wra /\ fs'.is_prepeared
      BY <1>0, <3>1 DEF FsType
    <3>3. fs.ate_wra \in Blanks(flash) /\ fs.ate_wra \in AteAddrs
      BY <1>0, <2>1, <3>1 DEF WalkInv, Blanks
    <3>4. WalkInv'
      BY <2>1, <2>4, <3>2, <3>3 DEF WalkInv
    <3>5. ReadyInv'
      BY <2>1, <2>4, <3>1, <3>2, <3>3 DEF ReadyInv
    <3> QED BY <2>1, <2>5, <3>1, <3>4, <3>5 DEF AtesInv, DeleteInv, StoreInv
  <2> QED BY <2>6, <2>7
<1>6. CASE emds_flash_clear
  <2>1. PICK s \in ate_last_recover(flash, fs) : EraseReturns(s, FALSE)
    BY <1>6 DEF emds_flash_clear
  <2>2. check_erased(flash, 0, Size) /\ flash' = flash
    BY <1>6 DEF emds_flash_clear
  <2>3. Valid(flash) = {} /\ Blanks(flash) = AteAddrs
    BY <1>0, <2>2, ErasedPlaces
  <2>4. s \in FsType /\ s.ate_wra = Size - AteSize
    BY <1>0, <2>1, <2>2, ErasedRecover, RecoverType DEF Flash
  <2>5. /\ fs'.ate_wra = Size - AteSize /\ thread' = "idle" /\ isr' = "off"
        /\ emds_ready' => emds_ready \/ fs'.is_prepeared
        /\ isr = "off" /\ thread \in {"erase", "clear"}
    <3>1. isr' = isr
      BY <1>6 DEF emds_flash_clear, store_vars
    <3>2. CASE /\ ThreadAt("erase")
               /\ PrepareReturns([s EXCEPT !.force_erase = FALSE])
      <4>1. fs' = [[s EXCEPT !.force_erase = FALSE] EXCEPT !.is_prepeared = TRUE]
        BY <3>2 DEF PrepareReturns
      <4>2. fs'.ate_wra = s.ate_wra /\ fs'.is_prepeared
        BY <2>4, <4>1 DEF FsType
      <4> QED BY <2>4, <3>1, <3>2, <4>2 DEF PrepareReturns, ThreadAt
    <3>3. CASE ThreadAt("clear") /\ fs' = s /\ thread' = "idle" /\ emds_ready' = emds_ready
      BY <2>4, <3>1, <3>3 DEF ThreadAt
    <3> QED BY <2>1, <3>2, <3>3, Zenon DEF EraseReturns
  <2>6. ~emds_ready
    BY <1>0, <2>5 DEF ReadyInv
  <2>7. FlashInv'
    BY <1>0, <2>2, <2>3, FlashQuiet
  <2>8. WalkInv'
    BY <2>2, <2>3, <2>5, LastAteAddr DEF WalkInv
  <2>9. ReadyInv'
    BY <2>2, <2>3, <2>5, <2>6, LastAteAddr DEF ReadyInv
  <2> QED BY <2>5, <2>7, <2>8, <2>9 DEF AtesInv, DeleteInv, StoreInv
<1>7. CASE EraseFails
  <2>1. /\ UNCHANGED <<flash, fs, stores, isr, emds_initialized, emds_ready>>
        /\ isr = "off" /\ thread = "clear" /\ thread' = "idle" /\ clear_cut'
    BY <1>7 DEF EraseFails, EraseReturns, ThreadAt, store_vars, DeleteUse, SoundArea
  <2>2. DeleteInv' /\ ~Kept'
    BY <2>1 DEF DeleteInv, Kept
  <2> QED BY <2>1, <2>2, AtesCall
<1>8. CASE PowerLoss
  <2>1. /\ UNCHANGED <<flash, stores>> /\ ~emds_ready' /\ ~emds_initialized'
        /\ thread' = "idle" /\ isr' = "off"
    BY <1>8 DEF PowerLoss
  <2>2. Kept' => Kept
    BY <1>8 DEF PowerLoss, Kept
  <2>3. FlashInv'
    BY <1>0, <2>1, <2>2, FlashQuiet
  <2> QED BY <2>1, <2>3 DEF AtesInv, WalkInv, DeleteInv, ReadyInv, StoreInv
<1> QED BY <1>1, <1>2, <1>3, <1>4, <1>5, <1>6, <1>7, <1>8

\* The ATEs are invalidated upwards from the mark.
LEMMA AtesInvalidate ==
    ASSUME TypeInv, GapInv, AtesInv, old_entries_invalidate
    PROVE  AtesInv'
<1>0. /\ FlashInv /\ WalkInv /\ DeleteInv /\ ReadyInv /\ StoreInv
      /\ flash \in Flash /\ fs.ate_wra \in Int /\ ReadyInitialized /\ CursorAbove
  BY Sizes DEF AtesInv, TypeInv, EmdsTypeOK, Flash, GapInv
<1>1. /\ UNCHANGED <<fs, stores, isr, emds_initialized, emds_ready, clear_cut, thread>>
      /\ isr = "off" /\ thread = "invalidate" /\ cursor < Size /\ cursor' = cursor + 1
      /\ flash' = [flash EXCEPT ![cursor] = Program(@, Zero)]
  BY DEF old_entries_invalidate, ThreadAt, store_vars, ghost_vars
<1>2. /\ ~emds_ready /\ emds_initialized /\ cursor \in Addresses /\ cursor \in Int
      /\ cursor >= fs.ate_wra + AteSize
  BY <1>0, <1>1, Sizes DEF ReadyInv, ReadyInitialized, CursorAbove, TypeInv, EmdsTypeOK, Addresses
<1>3. PICK g : g = flash'
  OBVIOUS
<1>4. g = [flash EXCEPT ![cursor] = Zero] /\ g \in Flash
  BY <1>0, <1>1, <1>2, <1>3, BlockTypes DEF Program, Flash
<1>5. \A b \in Addresses : b # cursor => g[b] = flash[b]
  BY <1>0, <1>4 DEF Flash
<1>6. g[cursor] = Zero /\ g[cursor].kind = "zero"
  BY <1>0, <1>2, <1>4, BlockTypes DEF Flash
<1>7. \A a \in Valid(g) : a \in Valid(flash) /\ g[a] = flash[a]
  <2>1. \A b \in Addresses : g[b] = flash[b] \/ g[b].kind # "ate"
    BY <1>5, <1>6
  <2>2. flash \in Flash /\ g \in Flash
    BY <1>0, <1>4
  <2> QED BY <2>1, <2>2, ValidSame
<1>8. /\ Blanks(g) \subseteq Blanks(flash)
      /\ fs.ate_wra \in Blanks(flash) => fs.ate_wra \in Blanks(g)
  BY <1>0, <1>2, <1>4, BlanksSame, BlockTypes
<1>9. Kept' = Kept
  BY <1>1 DEF Kept
<1>10. ASSUME Valid(g) # {} PROVE Mark(fs.ate_wra)'
  <2>1. Valid(flash) # {}
    BY <1>7, <1>10
  <2>2. Mark(fs.ate_wra)
    BY <1>0, <1>1, <1>2, <2>1 DEF WalkInv
  <2>3. \A a \in Valid(g) : DataEnd(g, a) = DataEnd(flash, a)
    BY <1>7 DEF DataEnd
  <2>4. fs.ate_wra \in Blanks(g) /\ (Kept => \A a \in Valid(g) : DataEnd(g, a) <= fs.ate_wra)
    BY <1>7, <1>8, <2>2, <2>3 DEF Mark
  <2> QED BY <1>1, <1>3, <1>9, <2>4 DEF Mark
<1>11. ASSUME NEW a \in Valid(g)
       PROVE  g[a].store = stores /\ DataEnd(g, a) <= Size /\ (Kept => Holds(g, a))
  <2>1. a \in Valid(flash) /\ g[a] = flash[a] /\ a \in AteAddrs
    BY <1>7, <1>11 DEF Valid
  <2>2. flash[a].store = stores /\ DataEnd(flash, a) <= Size /\ (Kept => Holds(flash, a))
    BY <1>0, <2>1 DEF FlashInv
  <2>3. DataEnd(g, a) = DataEnd(flash, a)
    BY <2>1 DEF DataEnd
  <2>4. ASSUME Kept PROVE Holds(g, a)
    <3>1. DataEnd(flash, a) <= fs.ate_wra
      BY <1>0, <1>1, <1>2, <2>1, <2>4 DEF WalkInv, Mark
    <3>2. flash[a] \in Block
      BY <1>0, <2>1, AtePlaces DEF Flash
    <3>3. DataEnd(flash, a) \in Nat
      BY <3>2 DEF DataEnd, Block
    <3>4. \A b \in Addresses :
             b < DataEnd(flash, a) /\ flash[b].kind = "data" => g[b] = flash[b]
      <4> SUFFICES ASSUME NEW b \in Addresses, b < DataEnd(flash, a) PROVE b # cursor
        BY <1>5
      <4> QED BY <1>0, <1>2, <3>1, <3>3, Sizes DEF Addresses
    <3>5. flash \in Flash /\ g \in Flash /\ Holds(flash, a) /\ DataEnd(flash, a) <= Size
      BY <1>0, <1>4, <2>2, <2>4
    <3> QED BY <2>1, <3>4, <3>5, HoldsSame
  <2> QED BY <2>1, <2>2, <2>3, <2>4
<1>12. \A e \in Blanks(g), b \in Addresses : g[b].kind = "ate" => b >= e + AteSize
  BY <1>0, <1>5, <1>6, <1>8 DEF FlashInv
<1>13. FlashInv'
  <2>1. Valid(g) # {} => \E e \in AteAddrs : Mark(e)'
    BY <1>1, <1>3, <1>10 DEF Mark, Blanks
  <2> QED BY <1>1, <1>3, <1>9, <1>11, <1>12, <2>1 DEF FlashInv
<1>14. WalkInv'
  BY <1>0, <1>1, <1>2, <1>3, <1>8, <1>10 DEF WalkInv
<1>15. DeleteInv'
  <2>1. \A b \in Addresses : fs.ate_wra + AteSize <= b /\ b < cursor + 1 => g[b] = Zero
    <3> SUFFICES ASSUME NEW b \in Addresses, fs.ate_wra + AteSize <= b, b < cursor + 1
                 PROVE  g[b] = Zero
      OBVIOUS
    <3>1. b = cursor \/ b < cursor
      BY <1>2, Sizes DEF Addresses
    <3>2. CASE b = cursor
      BY <1>6, <3>2
    <3>3. CASE b < cursor
      <4>1. b # cursor
        BY <1>2, <3>3, Sizes DEF Addresses
      <4> QED BY <1>0, <1>1, <1>5, <3>3, <4>1 DEF DeleteInv
    <3> QED BY <3>1, <3>2, <3>3
  <2> QED BY <1>1, <1>3, <2>1 DEF DeleteInv
<1> QED BY <1>1, <1>2, <1>13, <1>14, <1>15 DEF AtesInv, ReadyInv, StoreInv

\* The sectors are erased upwards, so that what is left of the ATEs stays
\* above the blank places.
LEMMA AtesErase ==
    ASSUME TypeInv, GapInv, AtesInv, EraseSector
    PROVE  AtesInv'
<1>0. /\ FlashInv /\ WalkInv /\ DeleteInv /\ ReadyInv /\ StoreInv
      /\ flash \in Flash /\ ReadyInitialized
  BY DEF AtesInv, TypeInv, EmdsTypeOK, Flash, GapInv
<1>1. /\ UNCHANGED <<fs, stores, isr, emds_initialized, emds_ready, clear_cut, thread>>
      /\ isr = "off" /\ thread \in {"erase", "clear"} /\ cursor < Size
      /\ cursor' = cursor + SectorSize
      /\ flash' = [a \in Addresses |->
                     IF cursor <= a /\ a < cursor + SectorSize THEN Erased ELSE flash[a]]
  BY DEF EraseSector, ThreadAt, store_vars, ghost_vars
<1>2. ~emds_ready /\ emds_initialized /\ cursor \in Nat
  BY <1>0, <1>1 DEF ReadyInv, ReadyInitialized, TypeInv, EmdsTypeOK
<1>3. PICK g : g = flash'
  OBVIOUS
<1>4. /\ g \in Flash
      /\ \A b \in Addresses : g[b] = IF cursor <= b /\ b < cursor + SectorSize THEN Erased ELSE flash[b]
  BY <1>0, <1>1, <1>3, BlockTypes DEF Flash
<1>5. \A a \in Valid(g) : a \in Valid(flash) /\ g[a] = flash[a]
  BY <1>0, <1>4, ValidSame, BlockTypes
<1>6. Blanks(flash) \subseteq Blanks(g)
  BY <1>4, AtePlaces DEF Blanks
<1>7. Kept' = Kept /\ (thread = "clear" => ~Kept)
  BY <1>1 DEF Kept
<1>8. thread = "erase" => Valid(g) = {}
  BY <1>0, <1>1, <1>5 DEF DeleteInv
<1>9. ASSUME NEW e \in Blanks(g), NEW b \in Addresses, g[b].kind = "ate" PROVE b >= e + AteSize
  <2>0. b \in Nat /\ e \in Nat /\ e \in AteAddrs
    BY <1>9, AtePlaces, Sizes DEF Addresses, Blanks
  <2>1. g[b] # Erased
    BY <1>9, BlockTypes
  <2>2. g[b] = flash[b] /\ ~(cursor <= b /\ b < cursor + SectorSize)
    BY <1>4, <2>1
  <2>3. b >= cursor + SectorSize
    <3>1. CASE b < cursor
      <4>1. flash[b] = Erased
        BY <1>0, <1>1, <2>0, <3>1 DEF DeleteInv, check_erased
      <4> QED BY <2>1, <2>2, <4>1
    <3> QED BY <1>2, <2>0, <2>2, <3>1, Sizes
  <2>4. CASE e \in Blanks(flash)
    BY <1>0, <1>9, <2>2, <2>4 DEF FlashInv
  <2>5. CASE e \notin Blanks(flash)
    <3>1. PICK w \in Words : flash[e + w] # Erased
      BY <2>0, <2>5 DEF Blanks
    <3>2. e + w \in Addresses /\ g[e + w] = Erased /\ w \in Nat
      BY <1>9, <2>0, AtePlaces DEF Blanks
    <3>3. e + w < cursor + SectorSize
      BY <1>4, <3>1, <3>2
    <3>4. e < b
      BY <1>2, <2>0, <2>3, <3>2, <3>3, Sizes
    <3>5. CASE b < e + AteSize
      <4>1. b - e \in Words /\ e + (b - e) = b
        BY <2>0, <3>4, <3>5, Sizes DEF Words
      <4> QED BY <1>9, <2>1, <4>1 DEF Blanks
    <3> QED BY <2>0, <3>5, Sizes
  <2> QED BY <2>4, <2>5
<1>10. ASSUME NEW e, Mark(e) PROVE Mark(e)'
  <2>1. e \in Blanks(g) /\ (Kept => Valid(g) = {})
    BY <1>1, <1>6, <1>7, <1>8, <1>10 DEF Mark
  <2> QED BY <1>3, <1>7, <2>1 DEF Mark
<1>11. FlashInv'
  <2>1. \A a \in Valid(g) : g[a].store = stores /\ DataEnd(g, a) <= Size /\ (Kept => Holds(g, a))
    BY <1>0, <1>1, <1>5, <1>7, <1>8 DEF FlashInv, DataEnd
  <2>2. Valid(g) # {} => \E e \in AteAddrs : Mark(e)'
    BY <1>0, <1>5, <1>10 DEF FlashInv
  <2> QED BY <1>1, <1>3, <1>7, <1>9, <2>1, <2>2 DEF FlashInv
<1>12. WalkInv'
  BY <1>0, <1>1, <1>2, <1>3, <1>5, <1>6, <1>10 DEF WalkInv
<1>13. DeleteInv'
  <2>1. check_erased(g, 0, cursor + SectorSize)
    BY <1>0, <1>1, <1>2, <1>4, Sizes DEF DeleteInv, check_erased, Addresses
  <2> QED BY <1>1, <1>3, <1>8, <2>1 DEF DeleteInv
<1> QED BY <1>1, <1>2, <1>11, <1>12, <1>13 DEF AtesInv, ReadyInv, StoreInv

\* The entries a store goes through are registered.
LEMMA TodoRegistered ==
    ASSUME EmdsTypeOK
    PROVE  /\ Static \o emds_dynamic_entries \in Seq(Ids)
           /\ \A i \in DOMAIN (Static \o emds_dynamic_entries) :
                 (Static \o emds_dynamic_entries)[i] \in Registered
           /\ \A id \in Registered : \E i \in DOMAIN (Static \o emds_dynamic_entries) :
                 (Static \o emds_dynamic_entries)[i] = id
           /\ Registered \subseteq Ids
<1>1. Static \in Seq(Ids) /\ emds_dynamic_entries \in Seq(Ids)
  BY IdTypes DEF EmdsTypeOK
<1>2. Static \o emds_dynamic_entries \in Seq(Ids)
  BY <1>1
<1>3. ASSUME NEW i \in DOMAIN (Static \o emds_dynamic_entries)
      PROVE  (Static \o emds_dynamic_entries)[i] \in Registered
  BY <1>1, <1>3 DEF Registered
<1>4. ASSUME NEW id \in Registered
      PROVE  \E i \in DOMAIN (Static \o emds_dynamic_entries) :
                 (Static \o emds_dynamic_entries)[i] = id
  <2>1. CASE \E i \in DOMAIN Static : id = Static[i]
    BY <1>1, <2>1
  <2>2. CASE \E i \in DOMAIN emds_dynamic_entries : id = emds_dynamic_entries[i]
    <3>1. PICK i \in DOMAIN emds_dynamic_entries : id = emds_dynamic_entries[i]
      BY <2>2
    <3>2. /\ i + Len(Static) \in DOMAIN (Static \o emds_dynamic_entries)
          /\ (Static \o emds_dynamic_entries)[i + Len(Static)] = id
      BY <1>1, <3>1
    <3> QED BY <3>2
  <2> QED BY <1>4, <2>1, <2>2 DEF Registered
<1>5. Registered \subseteq Ids
  BY <1>1 DEF Registered
<1> QED BY <1>2, <1>3, <1>4, <1>5

\* A store begins, skips an entry or returns.
LEMMA AtesStoreQuiet ==
    ASSUME TypeInv, GapInv, AtesInv,
           (\E emergency \in BOOLEAN : emds_store(emergency)) \/ StoreSkips \/ StoreReturns
    PROVE  AtesInv'
<1>0. /\ FlashInv /\ WalkInv /\ DeleteInv /\ ReadyInv /\ StoreInv /\ EmdsTypeOK
      /\ flash \in Flash /\ ReadyInitialized
  BY DEF AtesInv, TypeInv, EmdsTypeOK, Flash, GapInv
<1>1. CASE \E emergency \in BOOLEAN : emds_store(emergency)
  <2>1. /\ UNCHANGED <<flash, fs, emds_ready, emds_initialized, emds_dynamic_entries, thread, cursor>>
        /\ isr = "off" /\ emds_ready /\ block' = 0 /\ stores' = stores + 1 /\ ~clear_cut'
        /\ todo' = Static \o emds_dynamic_entries
        /\ ram' = [id \in Ids |-> IF id \in Registered THEN stores + 1 ELSE ram[id]]
    BY <1>1 DEF emds_store, flash_vars, call_vars
  <2>2. isr' \in {"planned", "last"}
    BY <1>1 DEF emds_store
  <2>3. /\ Valid(flash) = {} /\ fs.ate_wra \in Blanks(flash) /\ thread \in {"idle", "add"}
        /\ fs.ate_wra \in AteAddrs
    BY <1>0, <2>1 DEF ReadyInv, WalkInv, ReadyInitialized, Blanks
  <2>4. FlashInv'
    BY <1>0, <2>1, <2>3, FlashQuiet
  <2>5. Registered' = Registered
    BY <2>1 DEF Registered
  <2>6. \A i \in DOMAIN todo' : todo'[i] \in Registered'
    BY <1>0, <2>1, <2>5, TodoRegistered
  <2>7. \A id \in Registered' : ram'[id] = stores'
    BY <1>0, <2>1, <2>5, TodoRegistered
  <2>8. StoreInv'
    <3>1. fs'.ate_wra \in AteAddrs' /\ Valid(flash') = {} /\ fs'.ate_wra \in Blanks(flash')
      BY <2>1, <2>3 DEF AteAddrs
    <3>2. ~(StoreRuns /\ block > 0)'
      BY <2>1
    <3> QED BY <2>1, <2>6, <2>7, <3>1, <3>2 DEF StoreInv
  <2>9. ReadyInv'
    BY <1>0, <2>1, <2>2, <2>3 DEF ReadyInv
  <2> QED BY <2>1, <2>2, <2>3, <2>4, <2>8, <2>9 DEF AtesInv, WalkInv, DeleteInv
<1>2. CASE StoreSkips
  <2>1. /\ UNCHANGED <<flash, fs, emds_ready, emds_initialized, emds_dynamic_entries, ram, thread,
                       cursor, isr, stores, clear_cut>>
        /\ isr \in {"planned", "last"} /\ todo # <<>> /\ block = 0 /\ block' = 0
        /\ todo' = Tail(todo)
    BY <1>2 DEF StoreSkips, Storing, NextEntry, flash_vars, call_vars, ghost_vars
  <2>2. Kept' = Kept /\ Registered' = Registered
    BY <2>1 DEF Kept, Registered
  <2>3. FlashInv'
    BY <1>0, <2>1, <2>2, FlashQuiet
  <2>4. \A i \in DOMAIN todo' : todo'[i] \in Registered'
    <3>1. \A i \in DOMAIN todo : todo[i] \in Registered
      BY <1>0, <2>1 DEF StoreInv
    <3>2. todo \in Seq(Ids)
      BY <1>0 DEF EmdsTypeOK
    <3> QED BY <2>1, <2>2, <3>1, <3>2
  <2>5. StoreInv'
    BY <1>0, <2>1, <2>2, <2>4 DEF StoreInv
  <2>6. ReadyInv' /\ DeleteInv' /\ WalkInv'
    BY <1>0, <2>1 DEF ReadyInv, DeleteInv, WalkInv
  <2> QED BY <2>3, <2>5, <2>6 DEF AtesInv
<1>3. CASE StoreReturns
  <2>1. /\ UNCHANGED <<flash, fs, emds_initialized, thread, cursor, stores, clear_cut>>
        /\ isr \in {"planned", "last"} /\ todo = <<>> /\ ~emds_ready'
    BY <1>3 DEF StoreReturns, flash_vars, call_vars
  <2>2. isr' \in {"off", "halted"}
    BY <1>3 DEF StoreReturns
  <2>3. Kept' = Kept
    BY <2>1 DEF Kept
  <2>4. FlashInv'
    BY <1>0, <2>1, <2>3, FlashQuiet
  <2>5. fs.ate_wra \in Blanks(flash) /\ Mark(fs.ate_wra)
    <3>1. /\ fs.ate_wra \in Blanks(flash)
          /\ \A a \in Valid(flash) : /\ DataEnd(flash, a) <= fs.data_wra_offset
                                     /\ fs.data_wra_offset <= fs.ate_wra
      BY <1>0, <2>1 DEF StoreInv
    <3>2. fs.data_wra_offset \in Int /\ fs.ate_wra \in Int
      BY <1>0, Sizes DEF EmdsTypeOK
    <3>3. \A a \in Valid(flash) : DataEnd(flash, a) \in Int
      <4> SUFFICES ASSUME NEW a \in Valid(flash) PROVE DataEnd(flash, a) \in Int
        OBVIOUS
      <4>1. flash[a] \in Block
        BY <1>0, AtePlaces DEF Valid, Flash
      <4> QED BY <4>1 DEF DataEnd, Block
    <3> QED BY <3>1, <3>2, <3>3 DEF Mark
  <2>6. Mark(fs.ate_wra)'
    BY <2>1, <2>3, <2>5 DEF Mark
  <2>7. WalkInv'
    BY <2>1, <2>5, <2>6 DEF WalkInv
  <2>8. DeleteInv'
    BY <1>0, <2>1 DEF DeleteInv
  <2> QED BY <2>1, <2>2, <2>4, <2>7, <2>8 DEF AtesInv, ReadyInv, StoreInv
<1> QED BY <1>1, <1>2, <1>3

\* The end of the data of an ATE is a number.
LEMMA EndType ==
    ASSUME NEW f \in Flash, NEW a \in Valid(f)
    PROVE  a \in AteAddrs /\ f[a].at \in Nat /\ f[a].len \in Nat /\ DataEnd(f, a) \in Nat
<1>1. a \in AteAddrs /\ f[a] \in Block
  BY AtePlaces DEF Valid, Flash
<1> QED BY <1>1 DEF DataEnd, Block

\* A block of data is written below the mark, into an erased block.
LEMMA AtesData ==
    ASSUME SoundArea, TypeInv, GapInv, AtesInv, data_wrt
    PROVE  AtesInv'
<1> DEFINE aw == fs.ate_wra
           dw == fs.data_wra_offset
           L == Blocks[Entry]
           v == DataBlock(Entry, ram[Entry], block)
           c == dw + block
<1>0. /\ FlashInv /\ WalkInv /\ DeleteInv /\ ReadyInv /\ StoreInv /\ EmdsTypeOK /\ StoreGap
      /\ flash \in Flash /\ fs \in FsType /\ aw \in Int /\ dw \in Nat /\ block \in Nat
      /\ aw + AteSize <= Size
  BY Sizes DEF AtesInv, TypeInv, EmdsTypeOK, Flash, FsType, GapInv
<1>1. /\ UNCHANGED <<emds_ready, emds_initialized, emds_dynamic_entries, ram, thread,
                     cursor, isr, todo, stores, clear_cut>>
      /\ isr \in {"planned", "last"} /\ todo # <<>> /\ block' = block + 1
  BY DEF data_wrt, Storing, call_vars, ghost_vars
<1>2. /\ L \in Nat /\ block < L /\ AteSize + L <= aw - dw
      /\ c \in Addresses /\ flash[c] = Erased /\ v \in Block
      /\ check_erased(flash, c, aw + AteSize)
      /\ flash' = [flash EXCEPT ![c] = Program(@, v)]
  BY <1>0, DataPlace
<1>3. v.kind = "data"
  BY BlockTypes
<1>4. fs'.ate_wra = aw /\ fs'.is_prepeared = fs.is_prepeared
      /\ fs'.data_wra_offset = IF block + 1 = L THEN dw + L ELSE dw
  BY <1>0 DEF data_wrt, FsType
<1>5. Kept' = Kept /\ Registered' = Registered /\ Entry' = Entry
  BY <1>1 DEF Kept, Registered, Entry
<1>6. PICK g : g = flash'
  OBVIOUS
<1>7. /\ g = [flash EXCEPT ![c] = v] /\ g \in Flash /\ g[c] = v
      /\ \A b \in Addresses : b # c => g[b] = flash[b]
  BY <1>0, <1>2, <1>6 DEF Program, Flash
<1>8. \A a \in Valid(g) : a \in Valid(flash) /\ g[a] = flash[a] /\ DataEnd(g, a) = DataEnd(flash, a)
  <2>1. \A b \in Addresses : g[b] = flash[b] \/ g[b].kind # "ate"
    BY <1>3, <1>7
  <2>2. flash \in Flash /\ g \in Flash
    BY <1>0, <1>7
  <2> QED BY <2>1, <2>2, ValidSame DEF DataEnd
<1>9. Blanks(g) \subseteq Blanks(flash) /\ \A e \in Blanks(flash) : c < e => e \in Blanks(g)
  <2>1. /\ flash \in Flash /\ g \in Flash /\ v.kind # "erased" /\ v \in Block
        /\ c \in Addresses /\ g = [flash EXCEPT ![c] = v]
    BY <1>0, <1>2, <1>3, <1>7
  <2> HIDE DEF v, c
  <2> QED BY <2>1, BlanksSame
<1>10. aw \in AteAddrs /\ aw \in Blanks(g)
  <2>1. aw \in AteAddrs /\ c \in Int /\ c < aw
    BY <1>0, <1>1, <1>2, Sizes DEF StoreInv
  <2>2. \A w \in Words : flash[aw + w] = Erased
    <3> SUFFICES ASSUME NEW w \in Words PROVE flash[aw + w] = Erased
      OBVIOUS
    <3>1. aw + w \in Addresses /\ c <= aw + w /\ aw + w < aw + AteSize
      BY <1>0, <2>1, AtePlaces, Sizes DEF Words
    <3> QED BY <1>2, <3>1 DEF check_erased
  <2> QED BY <1>9, <2>1, <2>2 DEF Blanks
<1>11. \A a \in Valid(flash) : a > aw /\ DataEnd(flash, a) <= dw /\ dw <= aw /\ DataEnd(flash, a) \in Nat
  BY <1>0, <1>1, EndType DEF StoreInv
<1> HIDE DEF v
<1>12. ASSUME NEW a \in Valid(g)
       PROVE  g[a].store = stores /\ DataEnd(g, a) <= Size /\ (Kept => Holds(g, a))
  <2>1. a \in Valid(flash) /\ g[a] = flash[a] /\ a \in AteAddrs /\ DataEnd(g, a) = DataEnd(flash, a)
    BY <1>8, <1>12 DEF Valid
  <2>2. flash[a].store = stores /\ DataEnd(flash, a) <= Size /\ (Kept => Holds(flash, a))
    BY <1>0, <2>1 DEF FlashInv
  <2>3. \A b \in Addresses : b < DataEnd(flash, a) /\ flash[b].kind = "data" => g[b] = flash[b]
    BY <1>2, <1>7, BlockTypes
  <2>4. flash \in Flash /\ g \in Flash
    BY <1>0, <1>7
  <2>5. Kept => Holds(g, a)
    BY <2>1, <2>2, <2>3, <2>4, HoldsSame
  <2> QED BY <2>1, <2>2, <2>5
<1>13. FlashInv'
  <2>1. \A e \in Blanks(g), b \in Addresses : g[b].kind = "ate" => b >= e + AteSize
    BY <1>0, <1>3, <1>7, <1>9 DEF FlashInv
  <2>2. \A a \in Valid(g) : DataEnd(g, a) <= aw
    BY <1>0, <1>8, <1>11
  <2>3. \E e \in AteAddrs : Mark(e)'
    <3>1. PICK e : e = aw
      OBVIOUS
    <3> QED BY <1>6, <1>10, <2>2, <3>1 DEF Mark
  <2> QED BY <1>1, <1>5, <1>6, <1>12, <2>1, <2>3 DEF FlashInv
<1>14. ReadyInv' /\ DeleteInv' /\ WalkInv'
  BY <1>0, <1>1, <1>4, <1>6, <1>9 DEF ReadyInv, DeleteInv, WalkInv, StoreInv
<1>15. PartWritten'
  <2>1. L' = L
    BY <1>5
  <2>2. IF block' < L THEN fs'.data_wra_offset = dw ELSE fs'.data_wra_offset - L = dw
    BY <1>0, <1>1, <1>2, <1>4
  <2>3. \A w \in 0 .. L - 1 : w < block + 1 => g[dw + w] = DataBlock(Entry, ram[Entry], w)
    <3> SUFFICES ASSUME NEW w \in 0 .. L - 1, w < block + 1
                 PROVE  g[dw + w] = DataBlock(Entry, ram[Entry], w)
      OBVIOUS
    <3>1. CASE w = block
      BY <1>7, <3>1 DEF v
    <3>2. CASE w < block
      <4>1. block > 0 /\ block < L
        BY <1>0, <1>2, <3>2
      <4>2. PartWritten
        BY <1>0, <1>1, <4>1 DEF StoreInv, StoreRuns
      <4>3. flash[dw + w] = DataBlock(Entry, ram[Entry], w)
        BY <3>2, <4>1, <4>2 DEF PartWritten
      <4>4. dw + w # c /\ dw + w \in Addresses
        BY <1>0, <1>2, <3>2, Sizes DEF Addresses
      <4> QED BY <1>7, <4>3, <4>4
    <3> QED BY <1>0, <1>2, <3>1, <3>2
  <2>4. \A w \in Words : ~(L + w < block + 1)
    BY <1>0, <1>2, Sizes DEF Words
  <2>5. PICK n : n = block' /\ n = block + 1
    BY <1>1
  <2>6. PICK at : at = dw /\ at = IF n < L THEN fs'.data_wra_offset ELSE fs'.data_wra_offset - L
    BY <2>2, <2>5
  <2>7. at >= 0
    BY <1>0, <2>6
  <2> HIDE DEF L
  <2>8. /\ \A w \in 0 .. L - 1 : w < n => g[at + w] = DataBlock(Entry, ram[Entry], w)
        /\ \A w \in Words : ~(L + w < n)
    BY <2>3, <2>4, <2>5, <2>6
  <2> QED BY <1>1, <1>5, <1>6, <2>1, <2>5, <2>6, <2>7, <2>8 DEF PartWritten, L
<1>16. StoreInv'
  <2>1. \A a \in Valid(g) : a > aw /\ DataEnd(g, a) <= fs'.data_wra_offset
                            /\ fs'.data_wra_offset <= aw
    BY <1>0, <1>2, <1>4, <1>8, <1>11, Sizes
  <2>2. block' # 0 /\ todo' # <<>>
    BY <1>0, <1>1
  <2>3. \A i \in DOMAIN todo' : todo'[i] \in Registered'
    BY <1>0, <1>1, <1>5 DEF StoreInv
  <2>4. \A id \in Registered' : ram'[id] = stores'
    BY <1>0, <1>1, <1>5 DEF StoreInv
  <2> QED BY <1>0, <1>1, <1>4, <1>6, <1>10, <1>15, <2>1, <2>2, <2>3, <2>4 DEF StoreInv
<1> QED BY <1>13, <1>14, <1>16 DEF AtesInv

\* What ate_wrt programs, and the data that the ATE is for.
LEMMA AteStepOf ==
    ASSUME SoundArea, TypeInv, GapInv, AtesInv, ate_wrt
    PROVE  LET len == Blocks[Entry]
               at == fs.data_wra_offset - len
           IN  /\ at \in Nat /\ ram[Entry] = stores
               /\ \A u \in 0 .. len - 1 : flash[at + u] = DataBlock(Entry, stores, u)
               /\ AteStep(flash, flash', fs.ate_wra, block - len, Entry, stores, at, len)
<1> DEFINE aw == fs.ate_wra
           dw == fs.data_wra_offset
           L == Blocks[Entry]
           w == block - L
           at == dw - L
           c == aw + w
           v == AteBlock(Entry, ram[Entry], at, L, w)
<1>0. /\ FlashInv /\ WalkInv /\ DeleteInv /\ ReadyInv /\ StoreInv /\ EmdsTypeOK /\ StoreGap
      /\ flash \in Flash /\ fs \in FsType /\ aw \in Int /\ dw \in Nat /\ block \in Nat
      /\ aw + AteSize <= Size
  BY Sizes DEF AtesInv, TypeInv, EmdsTypeOK, Flash, FsType, GapInv
<1>1. isr \in {"planned", "last"} /\ todo # <<>>
  BY DEF ate_wrt, Storing
<1>2. /\ block > 0 /\ block >= L /\ Entry \in Ids /\ L \in Nat /\ w \in Words
      /\ dw + AteSize <= aw /\ check_erased(flash, dw, aw) /\ check_erased(flash, c, aw + AteSize)
      /\ c \in Addresses /\ flash[c] = Erased /\ StoreRuns
      /\ flash' = [flash EXCEPT ![c] = Program(@, AteBlock(Entry, ram[Entry], AteOffset, L, w))]
  BY <1>0, AtePlace
<1>3. /\ w \in Nat /\ w < AteSize /\ aw \in AteAddrs /\ aw \in Nat /\ c \in Nat /\ PartWritten
      /\ ram[Entry] = stores /\ stores \in Nat
  <2>1. Entry \in Registered
    <3>1. todo \in Seq(Ids) /\ 1 \in DOMAIN todo /\ Entry = todo[1]
      BY <1>0, <1>1 DEF EmdsTypeOK, Entry
    <3> QED BY <1>0, <1>1, <3>1 DEF StoreInv
  <2>2. aw \in AteAddrs /\ PartWritten /\ ram[Entry] = stores
    BY <1>0, <1>1, <1>2, <2>1 DEF StoreInv
  <2>3. aw \in Nat /\ w \in Nat
    BY <1>2, <2>2, AtePlaces
  <2>4. w < AteSize
    BY <1>2, Sizes DEF Words
  <2>5. stores \in Nat
    BY <1>0 DEF EmdsTypeOK
  <2> HIDE DEF w, aw
  <2> QED BY <2>2, <2>3, <2>4, <2>5
<1>4. /\ at \in Nat
      /\ \A u \in 0 .. L - 1 : flash[at + u] = DataBlock(Entry, stores, u)
      /\ \A u \in Words : u < w => flash[aw + u] = AteBlock(Entry, stores, at, L, u)
  <2>1. /\ at >= 0 /\ ~(block < L)
        /\ \A u \in 0 .. L - 1 : u < block => flash[at + u] = DataBlock(Entry, stores, u)
        /\ \A u \in Words : L + u < block => flash[aw + u] = AteBlock(Entry, stores, at, L, u)
    BY <1>0, <1>2, <1>3 DEF PartWritten
  <2>2. \A u \in 0 .. L - 1 : u < block
    BY <1>0, <1>2
  <2>3. \A u \in Words : u < w => L + u < block
    BY <1>0, <1>2, Sizes DEF Words
  <2>4. at \in Nat
    BY <1>0, <1>2, <2>1
  <2> QED BY <2>1, <2>2, <2>3, <2>4
<1>5. AteOffset = at
  <2>1. at < OffsMod
    BY <1>0, <1>2, <1>4, Sizes DEF SoundArea
  <2>2. at % OffsMod = at
    BY <1>4, <2>1, OffsetExact
  <2> QED BY <2>2 DEF AteOffset
<1>6. v \in Block /\ v.kind = "ate"
  <2>1. Entry \in Nat /\ ram[Entry] \in Contents
    BY <1>2, <1>3, IdTypes DEF Contents
  <2>2. w \in Nat /\ at \in Nat /\ L \in Nat
    BY <1>2, <1>3, <1>4
  <2> HIDE DEF w, at, L
  <2> QED BY <2>1, <2>2, BlockTypes
<1>7. flash' = [flash EXCEPT ![c] = v] /\ flash' \in Flash
  BY <1>0, <1>2, <1>5, <1>6 DEF Program, Flash
<1>8. \A u \in Words : u >= w => flash[aw + u] = Erased
  <2> SUFFICES ASSUME NEW u \in Words, u >= w PROVE flash[aw + u] = Erased
    OBVIOUS
  <2>1. aw + u \in Addresses /\ c <= aw + u /\ aw + u < aw + AteSize
    BY <1>3, AtePlaces, Sizes DEF Words
  <2> QED BY <1>2, <2>1 DEF check_erased
<1>9. Entry \in Nat /\ stores \in Contents
  BY <1>2, <1>3, IdTypes DEF Contents
<1>10. AteStep(flash, flash', aw, w, Entry, stores, at, L)
  BY <1>0, <1>2, <1>3, <1>4, <1>7, <1>8, <1>9 DEF AteStep
<1> QED BY <1>3, <1>4, <1>10

\* A block of an ATE is written into an erased block; the last one makes the
\* ATE valid, and the mark moves to the place below.
LEMMA AtesAte ==
    ASSUME SoundArea, TypeInv, GapInv, AtesInv, ate_wrt
    PROVE  AtesInv'
<1> DEFINE aw == fs.ate_wra
           dw == fs.data_wra_offset
           L == Blocks[Entry]
           w == block - L
           at == dw - L
           c == aw + w
           v == AteBlock(Entry, ram[Entry], at, L, w)
<1>0. /\ FlashInv /\ WalkInv /\ DeleteInv /\ ReadyInv /\ StoreInv /\ EmdsTypeOK /\ StoreGap
      /\ flash \in Flash /\ fs \in FsType /\ aw \in Int /\ dw \in Nat /\ block \in Nat
      /\ aw + AteSize <= Size
  BY Sizes DEF AtesInv, TypeInv, EmdsTypeOK, Flash, FsType, GapInv
<1>1. /\ UNCHANGED <<emds_ready, emds_initialized, emds_dynamic_entries, ram, thread,
                     cursor, isr, stores, clear_cut>>
      /\ isr \in {"planned", "last"} /\ todo # <<>>
      /\ IF w + 1 < AteSize
         THEN block' = block + 1 /\ UNCHANGED <<fs, todo>>
         ELSE /\ fs' = [fs EXCEPT !.ate_wra = @ - AteSize]
              /\ todo' = Tail(todo) /\ block' = 0
  BY DEF ate_wrt, Storing, NextEntry, call_vars, ghost_vars
<1>2. /\ block > 0 /\ block >= L /\ Entry \in Ids /\ L \in Nat /\ w \in Words
      /\ dw + AteSize <= aw /\ check_erased(flash, dw, aw) /\ check_erased(flash, c, aw + AteSize)
      /\ c \in Addresses /\ flash[c] = Erased /\ StoreRuns
      /\ flash' = [flash EXCEPT ![c] = Program(@, AteBlock(Entry, ram[Entry], AteOffset, L, w))]
  BY <1>0, AtePlace
<1>3. /\ w \in Nat /\ w < AteSize /\ aw \in AteAddrs /\ aw \in Nat /\ c \in Nat /\ PartWritten
      /\ ram[Entry] = stores /\ stores \in Nat
  <2>1. Entry \in Registered
    <3>1. todo \in Seq(Ids) /\ 1 \in DOMAIN todo /\ Entry = todo[1]
      BY <1>0, <1>1 DEF EmdsTypeOK, Entry
    <3> QED BY <1>0, <1>1, <3>1 DEF StoreInv
  <2>2. aw \in AteAddrs /\ PartWritten /\ ram[Entry] = stores
    BY <1>0, <1>1, <1>2, <2>1 DEF StoreInv
  <2>3. aw \in Nat /\ w \in Nat
    BY <1>2, <2>2, AtePlaces
  <2>4. w < AteSize
    BY <1>2, Sizes DEF Words
  <2>5. stores \in Nat
    BY <1>0 DEF EmdsTypeOK
  <2> HIDE DEF w, aw
  <2> QED BY <2>2, <2>3, <2>4, <2>5
<1>4. PICK g : g = flash'
  OBVIOUS
<1>5. /\ at \in Nat
      /\ \A u \in 0 .. L - 1 : flash[at + u] = DataBlock(Entry, stores, u)
      /\ AteStep(flash, g, aw, w, Entry, stores, at, L)
  BY <1>4, AteStepOf
<1>6. \A u \in Words : u < w => flash[aw + u] = AteBlock(Entry, stores, at, L, u)
  BY <1>5 DEF AteStep
<1>7. v \in Block /\ v.kind = "ate"
  <2>1. Entry \in Nat /\ ram[Entry] \in Contents
    BY <1>2, <1>3, IdTypes DEF Contents
  <2>2. w \in Nat /\ at \in Nat /\ L \in Nat
    BY <1>2, <1>3, <1>5
  <2> HIDE DEF w, at, L
  <2> QED BY <2>1, <2>2, BlockTypes
<1>8. /\ g = [flash EXCEPT ![c] = v] /\ g \in Flash /\ g[c] = v
      /\ \A b \in Addresses : b # c => g[b] = flash[b]
  <2>1. g = [flash EXCEPT ![c] = v] /\ g \in Flash
    BY <1>3, <1>5 DEF AteStep
  <2> QED BY <1>0, <1>2, <2>1 DEF Flash
<1>9. /\ \A a \in Valid(g) : a # aw => a \in Valid(flash) /\ g[a] = flash[a]
      /\ w + 1 < AteSize => aw \notin Valid(g)
      /\ w + 1 = AteSize => g[aw] = AteBlock(Entry, stores, at, L, 0)
  <2> HIDE DEF aw, w, at, L
  <2> QED BY <1>5, AteWritten
<1>10. /\ Blanks(g) \subseteq Blanks(flash)
       /\ \A e \in Blanks(g) : c < e \/ c >= e + AteSize
       /\ \A e \in Blanks(flash) : c < e \/ c >= e + AteSize => e \in Blanks(g)
  <2>1. /\ flash \in Flash /\ g \in Flash /\ v.kind # "erased" /\ v \in Block
        /\ c \in Addresses /\ g = [flash EXCEPT ![c] = v]
    BY <1>0, <1>2, <1>7, <1>8
  <2> HIDE DEF v, c
  <2> QED BY <2>1, BlanksSame
<1>11. \A e \in Blanks(g) : e \in Nat /\ e <= aw /\ c >= e + AteSize /\ e + AteSize <= aw
  <2> SUFFICES ASSUME NEW e \in Blanks(g)
               PROVE  e \in Nat /\ e <= aw /\ c >= e + AteSize /\ e + AteSize <= aw
    OBVIOUS
  <2>1. e \in AteAddrs /\ e \in Nat
    BY AtePlaces DEF Blanks
  <2>2. e <= aw
    BY <1>0, <1>1, <1>10 DEF StoreInv, ReadyInv
  <2>3. c >= e + AteSize
    BY <1>3, <1>10, <2>1, <2>2
  <2>4. e < aw
    BY <1>3, <2>1, <2>3, Sizes
  <2>5. e + AteSize <= aw
    BY <1>3, <2>1, <2>4, AtePlaces
  <2> QED BY <2>1, <2>2, <2>3, <2>5
<1>12. PICK n : n = aw - AteSize
  OBVIOUS
<1>13. n \in AteAddrs /\ n \in Nat /\ dw <= n /\ n < aw /\ n \in Blanks(g)
  <2>1. aw >= AteSize
    BY <1>0, <1>2, Sizes
  <2>2. n \in AteAddrs /\ n \in Nat /\ dw <= n /\ n < aw /\ n + AteSize = aw
    BY <1>0, <1>2, <1>3, <1>12, <2>1, AtePlaces, Sizes
  <2>3. \A u \in Words : flash[n + u] = Erased
    <3> SUFFICES ASSUME NEW u \in Words PROVE flash[n + u] = Erased
      OBVIOUS
    <3>1. n + u \in Addresses /\ dw <= n + u /\ n + u < aw
      BY <1>0, <2>2, AtePlaces, Sizes DEF Words
    <3> QED BY <1>2, <3>1 DEF check_erased
  <2>4. n \in Blanks(flash) /\ c >= n + AteSize
    BY <1>3, <2>2, <2>3 DEF Blanks
  <2> QED BY <1>10, <2>2, <2>4
<1>14. \A a \in Valid(flash) : a > aw /\ DataEnd(flash, a) <= dw /\ DataEnd(flash, a) \in Nat
  BY <1>0, <1>1, EndType DEF StoreInv
<1>15. Kept' = Kept /\ Registered' = Registered
  BY <1>1 DEF Kept, Registered
<1> HIDE DEF v
<1>16. ASSUME NEW a \in Valid(g)
       PROVE  /\ g[a].store = stores /\ DataEnd(g, a) \in Nat /\ DataEnd(g, a) <= dw
              /\ a \in Nat /\ a >= aw /\ (Kept => Holds(g, a))
              /\ a = aw => w + 1 = AteSize /\ g[aw] = AteBlock(Entry, stores, at, L, 0)
  <2>0. a \in AteAddrs /\ a \in Nat
    BY <1>16, AtePlaces DEF Valid
  <2>1. CASE a # aw
    <3>1. a \in Valid(flash) /\ g[a] = flash[a] /\ DataEnd(g, a) = DataEnd(flash, a)
      BY <1>9, <1>16, <2>1 DEF DataEnd
    <3>2. flash[a].store = stores /\ DataEnd(flash, a) <= Size /\ (Kept => Holds(flash, a))
      BY <1>0, <3>1 DEF FlashInv
    <3>3. \A b \in Addresses : b < DataEnd(flash, a) /\ flash[b].kind = "data" => g[b] = flash[b]
      BY <1>2, <1>8, BlockTypes
    <3>4. flash \in Flash /\ g \in Flash
      BY <1>0, <1>8
    <3>5. Kept => Holds(g, a)
      BY <2>0, <3>1, <3>2, <3>3, <3>4, HoldsSame
    <3> QED BY <1>3, <1>14, <2>0, <2>1, <3>1, <3>2, <3>5
  <2>2. CASE a = aw
    <3>1. w + 1 = AteSize
      <4>1. aw \in Valid(g)
        BY <1>16, <2>2
      <4>2. ~(w + 1 < AteSize)
        BY <1>9, <4>1
      <4>3. PICK k \in Nat : k = w /\ k < AteSize
        BY <1>3
      <4> QED
        BY <4>2, <4>3, Sizes
    <3>2. g[a] = AteBlock(Entry, stores, at, L, 0)
      BY <1>9, <2>2, <3>1
    <3>3. g[a].store = stores /\ g[a].at = at /\ g[a].len = L /\ g[a].id = Entry
      BY <3>2 DEF AteBlock
    <3>4. DataEnd(g, a) = dw
      BY <1>0, <1>2, <3>3 DEF DataEnd
    <3>5. \A u \in 0 .. L - 1 : g[at + u] = DataBlock(Entry, stores, u)
      <4> SUFFICES ASSUME NEW u \in 0 .. L - 1 PROVE g[at + u] = flash[at + u]
        BY <1>5, <1>6
      <4>1. at + u < dw /\ at + u \in Addresses
        BY <1>0, <1>2, <1>5, <1>6, Sizes DEF Addresses
      <4>2. at + u # c
        BY <1>0, <1>2, <1>3, <1>5, <1>6, <4>1, Sizes
      <4> QED BY <1>8, <4>1, <4>2
    <3>6. Holds(g, a)
      BY <3>3, <3>5 DEF Holds
    <3> QED BY <1>0, <1>3, <2>2, <3>1, <3>2, <3>3, <3>4, <3>6
  <2> QED BY <2>1, <2>2
<1>17. FlashInv'
  <2>1. \A e \in Blanks(g), b \in Addresses : g[b].kind = "ate" => b >= e + AteSize
    BY <1>0, <1>8, <1>10, <1>11 DEF FlashInv
  <2>2. \A a \in Valid(g) : DataEnd(g, a) <= n /\ DataEnd(g, a) <= Size
    <3> SUFFICES ASSUME NEW a \in Valid(g) PROVE DataEnd(g, a) <= n /\ DataEnd(g, a) <= Size
      OBVIOUS
    <3>1. DataEnd(g, a) \in Nat /\ DataEnd(g, a) <= dw
      BY <1>16
    <3> QED BY <1>0, <1>3, <1>13, <3>1, Sizes
  <2>3. \E e \in AteAddrs : Mark(e)'
    BY <1>4, <1>13, <2>2 DEF Mark
  <2> QED BY <1>1, <1>4, <1>15, <1>16, <2>1, <2>2, <2>3 DEF FlashInv
<1>18. thread \in {"idle", "add"} /\ emds_ready /\ fs.is_prepeared /\ ~clear_cut
  BY <1>0, <1>1 DEF StoreInv, ReadyInv
<1>19. DeleteInv' /\ WalkInv'
  BY <1>1, <1>18 DEF DeleteInv, WalkInv
<1>20. /\ \A i \in DOMAIN todo : todo[i] \in Registered
       /\ \A id \in Registered : ram[id] = stores
  BY <1>0, <1>1 DEF StoreInv
<1>21. CASE w + 1 < AteSize
  <2>1. block' = block + 1 /\ fs' = fs /\ todo' = todo /\ Entry' = Entry
    BY <1>1, <1>21 DEF Entry
  <2>2. ReadyInv'
    <3>1. \A a \in Blanks(g) : a <= aw
      BY <1>11
    <3> QED BY <1>1, <1>4, <1>18, <2>1, <3>1 DEF ReadyInv
  <2>3. PartWritten'
    <3>1. \A u \in 0 .. L - 1 : g[at + u] = DataBlock(Entry, ram[Entry], u)
      <4> SUFFICES ASSUME NEW u \in 0 .. L - 1 PROVE g[at + u] = flash[at + u]
        BY <1>3, <1>5, <1>6
      <4>1. at + u < dw /\ at + u \in Addresses
        BY <1>0, <1>2, <1>5, <1>6, Sizes DEF Addresses
      <4>2. at + u # c
        BY <1>0, <1>2, <1>3, <1>5, <1>6, <4>1, Sizes
      <4> QED BY <1>8, <4>1, <4>2
    <3>2. \A u \in Words : L + u < block + 1 => g[aw + u] = AteBlock(Entry, ram[Entry], at, L, u)
      <4> SUFFICES ASSUME NEW u \in Words, L + u < block + 1
                   PROVE  g[aw + u] = AteBlock(Entry, ram[Entry], at, L, u)
        OBVIOUS
      <4>1. u \in Nat /\ (u = w \/ u < w) /\ aw + u \in Addresses
        BY <1>0, <1>2, <1>3, AtePlaces, Sizes DEF Words
      <4>2. CASE u = w
        BY <1>8, <4>2 DEF v
      <4>3. CASE u < w
        <5>1. aw + u # c
          BY <1>3, <4>1, <4>3
        <5> QED BY <1>3, <1>5, <1>6, <1>8, <4>1, <4>3, <5>1
      <4> QED BY <4>1, <4>2, <4>3
    <3>3. ~(block + 1 < L) /\ at >= 0
      BY <1>0, <1>2, <1>5, <1>6
    <3>4. ram' = ram /\ flash' = g
      BY <1>1, <1>4
    <3>5. PICK p : p = at
      OBVIOUS
    <3>6. /\ p = dw - L /\ p >= 0
          /\ \A u \in 0 .. L - 1 : g[p + u] = DataBlock(Entry, ram[Entry], u)
          /\ \A u \in Words : L + u < block + 1 => g[aw + u] = AteBlock(Entry, ram[Entry], p, L, u)
      BY <3>1, <3>2, <3>3, <3>5
    <3> QED BY <2>1, <3>3, <3>4, <3>6 DEF PartWritten
  <2>4. StoreInv'
    <3>1. \A a \in Valid(g) : a > aw /\ DataEnd(g, a) <= dw /\ dw <= aw
      BY <1>0, <1>2, <1>3, <1>16, <1>21, Sizes
    <3>2. block' # 0 /\ todo' # <<>>
      BY <1>0, <1>1, <2>1
    <3> QED BY <1>1, <1>3, <1>4, <1>15, <1>18, <1>20, <2>1, <2>3, <3>1, <3>2 DEF StoreInv
  <2> QED BY <1>17, <1>19, <2>2, <2>4 DEF AtesInv
<1>22. CASE ~(w + 1 < AteSize)
  <2>1. /\ fs'.ate_wra = n /\ fs'.data_wra_offset = dw /\ fs'.is_prepeared = fs.is_prepeared
        /\ todo' = Tail(todo) /\ block' = 0
    BY <1>0, <1>1, <1>12, <1>22 DEF FsType
  <2>2. ReadyInv'
    <3>1. \A a \in Blanks(g) : a <= n
      BY <1>3, <1>11, <1>12, Sizes
    <3> QED BY <1>1, <1>4, <1>18, <2>1, <3>1 DEF ReadyInv
  <2>3. \A i \in DOMAIN todo' : todo'[i] \in Registered'
    <3>1. todo \in Seq(Ids)
      BY <1>0 DEF EmdsTypeOK
    <3> QED BY <1>1, <1>15, <1>20, <2>1, <3>1
  <2>4. StoreInv'
    <3>1. \A a \in Valid(g) : a > n /\ DataEnd(g, a) <= dw /\ dw <= n
      BY <1>3, <1>13, <1>16
    <3> QED BY <1>1, <1>4, <1>13, <1>15, <1>18, <1>20, <2>1, <2>3, <3>1 DEF StoreInv
  <2> QED BY <1>17, <1>19, <2>2, <2>4 DEF AtesInv
<1> QED BY <1>21, <1>22

\* Every step preserves the invariant of the ATEs.
LEMMA AtesStep ==
    ASSUME DeleteUse, TypeInv, GapInv, AtesInv, [EmdsNext]_emds_vars
    PROVE  AtesInv'
<1>1. CASE UNCHANGED emds_vars
  BY <1>1 DEF emds_vars, AtesInv, FlashInv, WalkInv, DeleteInv, ReadyInv, StoreInv, Mark, Kept,
     PartWritten, StoreRuns, Entry, Registered
<1>2. CASE EmdsNext
  BY <1>2, AtesQuiet, AtesInvalidate, AtesErase, AtesStoreQuiet, AtesData, AtesAte
     DEF EmdsNext, DeleteUse
<1> QED BY <1>1, <1>2

-----------------------------------------------------------------------------
\* emds_flash_read returns the contents that a valid ATE of the entry names,
\* if the entry has one above ate_wra.
LEMMA ReadNewest ==
    ASSUME NEW f \in Flash, NEW s \in FsType, NEW id
    PROVE  LET found == {a \in Valid(f) : a >= s.ate_wra /\ f[a].id = id} IN
           /\ found = {} => emds_flash_read(f, s, id) = 0
           /\ found # {} => \E a \in found :
                emds_flash_read(f, s, id) = IF Holds(f, a) THEN f[a].store ELSE Clobbered
<1> DEFINE found == {a \in AteAddrs : /\ a >= s.ate_wra
                                      /\ ate_check(f, a) = "VALID"
                                      /\ f[a].id = id}
           newest == CHOOSE a \in found : \A b \in found : a <= b
<1>0. found = {a \in Valid(f) : a >= s.ate_wra /\ f[a].id = id}
  BY DEF Valid
<1>1. CASE found = {}
  BY <1>0, <1>1 DEF emds_flash_read
<1>2. CASE found # {}
  <2>1. found \in SUBSET Nat
    BY Sizes DEF AteAddrs
  <2>2. \E a \in found : \A b \in found : a <= b
    BY <1>2, <2>1, LeastNatural
  <2>3. newest \in found
    BY <2>2
  <2>4. f[newest].id = id
    BY <2>3
  <2>5. emds_flash_read(f, s, id) =
          IF \A w \in 0 .. f[newest].len - 1 : f[f[newest].at + w] = DataBlock(id, f[newest].store, w)
          THEN f[newest].store ELSE Clobbered
    BY <1>2 DEF emds_flash_read
  <2>6. PICK a : a = newest
    OBVIOUS
  <2>7. emds_flash_read(f, s, id) = IF Holds(f, a) THEN f[a].store ELSE Clobbered
    BY <2>4, <2>5, <2>6 DEF Holds
  <2> QED BY <1>0, <1>2, <2>3, <2>6, <2>7
<1> QED BY <1>1, <1>2

(* Only registered entries are stored and loaded.                          *)
RamInv ==
    /\ LoadNeverStale
    /\ \A id \in Ids : ram[id] # 0 => id \in Registered
    /\ ~emds_initialized => \A id \in Ids : ram[id] = 0

\* Every step preserves it.
LEMMA RamStep ==
    ASSUME TypeInv, GapInv, AtesInv, RamInv, [EmdsNext]_emds_vars
    PROVE  RamInv'
<1>0. LoadNeverStale /\ FlashInv /\ EmdsTypeOK /\ flash \in Flash /\ fs \in FsType
  BY DEF RamInv, AtesInv, TypeInv, EmdsTypeOK, Flash, FsType
<1>1. CASE emds_init
  <2>1. ~emds_initialized /\ UNCHANGED <<ram, stores, clear_cut>> /\ emds_initialized'
    BY <1>1 DEF emds_init, store_vars, ghost_vars
  <2> QED BY <2>1 DEF RamInv, LoadNeverStale
<1>2. CASE \E id \in DynamicIds : emds_entry_add(id)
  <2>1. PICK id \in DynamicIds : emds_entry_add(id)
    BY <1>2
  <2>2. /\ emds_dynamic_entries' = Append(emds_dynamic_entries, id)
        /\ UNCHANGED <<ram, stores, clear_cut, emds_initialized>>
    BY <2>1 DEF emds_entry_add, store_vars, ghost_vars
  <2>3. Registered \subseteq Registered'
    <3>1. emds_dynamic_entries \in Seq(Ids)
      BY <1>0 DEF EmdsTypeOK
    <3>2. \A i \in DOMAIN emds_dynamic_entries :
            /\ i \in DOMAIN emds_dynamic_entries'
            /\ emds_dynamic_entries'[i] = emds_dynamic_entries[i]
      BY <2>2, <3>1
    <3> QED BY <3>2 DEF Registered
  <2> QED BY <2>2, <2>3 DEF RamInv, LoadNeverStale
<1>3. CASE emds_load
  <2>1. /\ UNCHANGED <<stores, clear_cut, emds_initialized, emds_dynamic_entries>>
        /\ thread = "idle" /\ emds_initialized
        /\ ram' = [id \in Ids |->
                     IF id \in Registered /\ emds_flash_read(flash, fs, id) # 0
                     THEN emds_flash_read(flash, fs, id) ELSE ram[id]]
    BY <1>3 DEF emds_load, CallBegins, ThreadAt, store_vars, ghost_vars
  <2>2. Registered' = Registered
    BY <2>1 DEF Registered
  <2>3. ASSUME NEW id \in Ids
        PROVE  LET n == emds_flash_read(flash, fs, id)
               IN  n \in {0, stores} \/ (clear_cut /\ n = Clobbered)
    <3> DEFINE found == {a \in Valid(flash) : a >= fs.ate_wra /\ flash[a].id = id}
    <3>1. CASE found = {}
      BY <1>0, <3>1, ReadNewest
    <3>2. CASE found # {}
      <4>1. PICK a \in found :
              emds_flash_read(flash, fs, id) = IF Holds(flash, a) THEN flash[a].store ELSE Clobbered
        BY <1>0, <3>2, ReadNewest
      <4>2. flash[a].store = stores /\ (Kept => Holds(flash, a))
        BY <1>0 DEF FlashInv
      <4> QED BY <2>1, <4>1, <4>2 DEF Kept
    <3> QED BY <3>1, <3>2
  <2> QED BY <2>1, <2>2, <2>3 DEF RamInv, LoadNeverStale
<1>4. CASE \E emergency \in BOOLEAN : emds_store(emergency)
  <2>1. /\ UNCHANGED <<emds_initialized, emds_dynamic_entries>>
        /\ emds_ready /\ stores' = stores + 1
        /\ ram' = [id \in Ids |-> IF id \in Registered THEN stores + 1 ELSE ram[id]]
    BY <1>4 DEF emds_store
  <2>2. Registered' = Registered /\ stores \in Nat
    BY <1>0, <2>1 DEF Registered, EmdsTypeOK
  <2>3. emds_initialized
    BY <2>1 DEF GapInv, ReadyInitialized
  <2> QED BY <2>1, <2>2, <2>3 DEF RamInv, LoadNeverStale
<1>5. CASE PowerLoss
  BY <1>5 DEF PowerLoss, RamInv, LoadNeverStale
<1>6. CASE \/ emds_prepare \/ old_entries_invalidate \/ InvalidateFails \/ emds_flash_prepare
           \/ emds_clear \/ EraseSector \/ emds_flash_clear \/ EraseFails
           \/ StoreSkips \/ data_wrt \/ ate_wrt \/ StoreReturns
           \/ EntryAddReturns \/ UNCHANGED emds_vars
  <2>1. UNCHANGED <<ram, stores, emds_initialized, emds_dynamic_entries>> /\ (clear_cut => clear_cut')
    <3>1. CASE \/ emds_prepare \/ old_entries_invalidate \/ InvalidateFails \/ emds_flash_prepare
               \/ emds_clear \/ EraseSector \/ StoreSkips \/ data_wrt \/ ate_wrt \/ StoreReturns
               \/ UNCHANGED emds_vars
      <4>1. CASE emds_prepare \/ emds_clear
        BY <4>1 DEF emds_prepare, emds_clear, store_vars
      <4>2. CASE old_entries_invalidate \/ InvalidateFails \/ emds_flash_prepare \/ EraseSector
        BY <4>2 DEF old_entries_invalidate, InvalidateFails, emds_flash_prepare,
           EraseSector, store_vars, ghost_vars
      <4>3. CASE StoreSkips \/ StoreReturns
        BY <4>3 DEF StoreSkips, StoreReturns, ghost_vars
      <4>4. CASE data_wrt
        BY <4>4 DEF data_wrt, ghost_vars
      <4>5. CASE ate_wrt
        BY <4>5, Zenon DEF ate_wrt, ghost_vars
      <4>6. CASE UNCHANGED emds_vars
        BY <4>6, Zenon DEF emds_vars
      <4> QED BY <3>1, <4>1, <4>2, <4>3, <4>4, <4>5, <4>6
    <3>3. CASE EntryAddReturns
      BY <3>3 DEF EntryAddReturns, store_vars, ghost_vars
    <3>2. CASE emds_flash_clear \/ EraseFails
      <4>1. UNCHANGED <<ram, stores, emds_initialized, emds_dynamic_entries>>
        BY <3>2, Zenon DEF emds_flash_clear, EraseFails, store_vars
      <4>2. clear_cut => clear_cut'
        BY <3>2 DEF emds_flash_clear, EraseFails, EraseReturns
      <4> QED BY <4>1, <4>2
    <3> QED BY <1>6, <3>1, <3>2, <3>3
  <2>2. Registered' = Registered
    BY <2>1 DEF Registered
  <2> QED BY <2>1, <2>2 DEF RamInv, LoadNeverStale
<1> QED BY <1>1, <1>2, <1>3, <1>4, <1>5, <1>6 DEF EmdsNext

(* An entry never holds data of an older store than the last: a load after *)
(* a store that was cut short finds that store's ATEs or none, since       *)
(* emds_prepare has invalidated the older ones before emds_is_ready().  It *)
(* holds for an application that does not delete while it is ready, and an *)
(* area with no ATE when the device is first started.                      *)
THEOREM EmdsLoadNeverStale ==
    ASSUME DeleteUse, CleanStart
    PROVE  EmdsSpec => []LoadNeverStale
<1>1. EmdsSpec => []TypeInv
  BY TypeInit, TypeStep, PTL DEF EmdsSpec
<1>2. EmdsInit => GapInv /\ AtesInv /\ RamInv
  <2>1. EmdsInit => RamInv
    BY DEF EmdsInit, RamInv, LoadNeverStale
  <2> QED BY <2>1, GapInit, AtesInit
<1>3. TypeInv /\ GapInv /\ AtesInv /\ RamInv /\ [EmdsNext]_emds_vars => GapInv' /\ AtesInv' /\ RamInv'
  BY GapStep, AtesStep, RamStep DEF DeleteUse
<1>4. RamInv => LoadNeverStale
  BY DEF RamInv
<1> QED BY <1>1, <1>2, <1>3, <1>4, PTL DEF EmdsSpec

-----------------------------------------------------------------------------
\* What SizeOfLast computes, one entry after the other.
LEMMA SizeSteps ==
    ASSUME NEW e \in Seq(Ids)
    PROVE  /\ SizeOfLast(e)[0] = 0
           /\ \A n \in 0 .. Len(e) : SizeOfLast(e)[n] \in Nat
           /\ \A n \in 1 .. Len(e) :
                SizeOfLast(e)[n] = Blocks[e[Len(e) - n + 1]] + AteSize + SizeOfLast(e)[n - 1]
<1> DEFINE N == Len(e)
           Of(n) == Blocks[e[N - n + 1]] + AteSize
           Sum(m, g) == g[0] = 0 /\ \A n \in 1 .. m : g[n] = Of(n) + g[n - 1]
           Missing == {m \in 0 .. N : ~ \E g \in [0 .. m -> Nat] : Sum(m, g)}
<1>1. N \in Nat /\ \A n \in 1 .. N : Of(n) \in Nat
  <2>1. N \in Nat /\ \A n \in 1 .. N : N - n + 1 \in 1 .. N
    OBVIOUS
  <2>2. \A n \in 1 .. N : e[N - n + 1] \in Ids
    BY <2>1
  <2> QED BY <2>1, <2>2, Sizes
<1> HIDE DEF N, Of
<1>2. Missing = {}
  <2> SUFFICES ASSUME Missing # {} PROVE FALSE
    OBVIOUS
  <2>1. Missing \in SUBSET Nat
    BY <1>1
  <2>2. PICK m \in Missing : \A k \in Missing : m <= k
    BY <2>1, LeastNatural
  <2>3. m \in Nat /\ m <= N
    BY <1>1
  <2>4. CASE m = 0
    <3>1. [k \in 0 .. 0 |-> 0] \in [0 .. m -> Nat] /\ Sum(m, [k \in 0 .. 0 |-> 0])
      BY <2>4
    <3> QED BY <3>1
  <2>5. CASE m > 0
    <3>1. m - 1 \in 0 .. N /\ m - 1 \notin Missing
      <4>1. m - 1 \in 0 .. N /\ ~(m <= m - 1)
        BY <1>1, <2>3, <2>5
      <4> HIDE DEF Missing
      <4> QED BY <2>2, <4>1
    <3>2. PICK g \in [0 .. m - 1 -> Nat] : Sum(m - 1, g)
      BY <3>1
    <3> DEFINE h == [k \in 0 .. m |-> IF k = m THEN Of(m) + g[m - 1] ELSE g[k]]
    <3>3. h \in [0 .. m -> Nat]
      <4>1. Of(m) \in Nat /\ g[m - 1] \in Nat
        BY <1>1, <2>3, <2>5
      <4>2. \A k \in 0 .. m : k # m => g[k] \in Nat
        BY <2>3
      <4> QED BY <4>1, <4>2
    <3>4. h[0] = 0
      BY <2>3, <2>5, <3>2
    <3>5. \A n \in 1 .. m : h[n] = Of(n) + h[n - 1]
      <4> SUFFICES ASSUME NEW n \in 1 .. m PROVE h[n] = Of(n) + h[n - 1]
        OBVIOUS
      <4>1. h[n - 1] = g[n - 1]
        BY <2>3
      <4>2. CASE n = m
        BY <4>1, <4>2, <2>3
      <4>3. CASE n # m
        <5>1. n \in 1 .. m - 1
          BY <2>3, <4>3
        <5>2. h[n] = g[n] /\ g[n] = Of(n) + g[n - 1]
          BY <2>3, <3>2, <4>3, <5>1
        <5> QED BY <4>1, <5>2
      <4> QED BY <4>2, <4>3
    <3> HIDE DEF h
    <3>6. Sum(m, h)
      BY <3>4, <3>5
    <3> QED BY <3>3, <3>6
  <2> QED BY <2>3, <2>4, <2>5
<1>3. PICK g \in [0 .. N -> Nat] : Sum(N, g)
  <2>1. N \in 0 .. N
    BY <1>1
  <2> QED BY <1>2, <2>1
<1> DEFINE Is(f) == f = [n \in 0 .. N |-> IF n = 0 THEN 0 ELSE Of(n) + f[n - 1]]
<1>4. Is(g)
  <2>1. \A n \in 0 .. N : g[n] = IF n = 0 THEN 0 ELSE Of(n) + g[n - 1]
    BY <1>1, <1>3
  <2> QED BY <2>1
<1>5. SizeOfLast(e) = CHOOSE f : f = [n \in 0 .. N |-> IF n = 0 THEN 0 ELSE Of(n) + f[n - 1]]
  BY DEF SizeOfLast, N, Of
<1>6. PICK f : f = SizeOfLast(e)
  OBVIOUS
<1>7. f = [n \in 0 .. N |-> IF n = 0 THEN 0 ELSE Of(n) + f[n - 1]]
  BY <1>4, <1>5, <1>6
<1>8. f[0] = 0 /\ \A n \in 1 .. N : f[n] = Of(n) + f[n - 1]
  BY <1>1, <1>7
<1>9. \A n \in 0 .. N : f[n] \in Nat
  <2> DEFINE Bad == {n \in 0 .. N : f[n] \notin Nat}
  <2> SUFFICES ASSUME Bad # {} PROVE FALSE
    OBVIOUS
  <2>1. Bad \in SUBSET Nat
    BY <1>1
  <2>2. PICK n \in Bad : \A k \in Bad : n <= k
    BY <2>1, LeastNatural
  <2>3. n \in 0 .. N /\ f[n] \notin Nat
    OBVIOUS
  <2>4. n # 0 /\ n \in 1 .. N
    BY <1>1, <1>8, <2>3
  <2>5. n - 1 \in 0 .. N /\ n - 1 \notin Bad
    <3>1. n - 1 \in 0 .. N /\ ~(n <= n - 1)
      BY <1>1, <2>4
    <3> HIDE DEF Bad
    <3> QED BY <2>2, <3>1
  <2>6. f[n - 1] \in Nat
    BY <2>5
  <2>7. Of(n) \in Nat /\ f[n] = Of(n) + f[n - 1]
    BY <1>1, <1>8, <2>4
  <2>8. f[n] \in Nat
    BY <2>6, <2>7
  <2> QED BY <2>3, <2>8
<1> QED BY <1>6, <1>8, <1>9 DEF N, Of

(* A store goes through the entries to the end: t are the last of e.       *)
Entries == Static \o Reserved
Rest(e, t) == Len(t) <= Len(e) /\ \A i \in 1 .. Len(t) : t[i] = e[Len(e) - Len(t) + i]

(* Every entry with data is still to be stored, or has a valid ATE.        *)
HasAte(f, id) == \E a \in Valid(f) : f[a].id = id
Covered(f, t) ==
    \A id \in Promised : Blocks[id] > 0 => (\E i \in DOMAIN t : t[i] = id) \/ HasAte(f, id)

(* The blocks of the entry that data_wrt has taken off the free space.     *)
Taken == IF block > 0 /\ block >= Blocks[Entry] THEN Blocks[Entry] ELSE 0

(* The entries left are the last of the reserved ones, d, for which there  *)
(* is room, and then, if emds_entry_add was interrupted, its entry.        *)
Cover(d, x) ==
    /\ todo = d \o x /\ Rest(Entries, d) /\ Covered(flash, d)
    /\ d # <<>> => SizeOfLast(Entries)[Len(d)] - Taken <= fs.ate_wra - fs.data_wra_offset

CoverInv ==
    isr \in {"planned", "last"} => \E d \in Seq(Ids), x \in Seq(Ids) : Cover(d, x)

\* A list without its last element, and that element.
LEMMA SplitLast ==
    ASSUME NEW a \in Seq(Ids), NEW e \in Seq(Ids), e # <<>>
    PROVE  /\ a \o e = (a \o SubSeq(e, 1, Len(e) - 1)) \o <<e[Len(e)]>>
           /\ e[Len(e)] \in Ids
<1>1. PICK n \in Nat : n = Len(e)
  OBVIOUS
<1>2. n \in 1 .. Len(e) /\ n \in 1 .. n /\ 1 \in 1 .. Len(e) /\ e[n] \in Ids
  BY <1>1
<1>3. SubSeq(e, 1, n) = SubSeq(e, 1, n - 1) \o <<e[n]>>
  BY <1>1, <1>2, SubSeqRecursiveSecond
<1>4. SubSeq(e, 1, n) = e
  BY <1>1, SubSeqFull
<1>5. PICK h : h = SubSeq(e, 1, n - 1)
  OBVIOUS
<1>6. h \in Seq(Ids)
  <2>1. \A i \in 1 .. n - 1 : e[i] \in Ids
    BY <1>1
  <2>2. 1 \in Int /\ n - 1 \in Int
    BY <1>1
  <2> QED BY <1>5, <2>1, <2>2, SubSeqProperties
<1>7. <<e[n]>> \in Seq(Ids)
  BY <1>2
<1>8. (a \o h) \o <<e[n]>> = a \o (h \o <<e[n]>>)
  BY <1>6, <1>7, ConcatAssociative
<1>9. a \o e = (a \o h) \o <<e[n]>>
  BY <1>3, <1>4, <1>5, <1>8, Zenon
<1> QED BY <1>1, <1>2, <1>5, <1>9

\* What a store goes through: the reserved entries, and at most one more.
LEMMA StoreSplit ==
    ASSUME EmdsTypeOK
    PROVE  \E x \in Seq(Ids) : Static \o emds_dynamic_entries = Entries \o x
<1>1. Static \in Seq(Ids) /\ emds_dynamic_entries \in Seq(Ids)
  BY IdTypes DEF EmdsTypeOK
<1>2. PICK a \in Seq(Ids), e \in Seq(Ids) : a = Static /\ e = emds_dynamic_entries
  BY <1>1
<1>3. CASE thread # "add"
  <2>1. Entries = a \o e /\ a \o e \in Seq(Ids) /\ <<>> \in Seq(Ids)
    BY <1>2, <1>3, ReservedAll DEF Entries
  <2>2. (a \o e) \o <<>> = a \o e
    <3>1. PICK u \in Seq(Ids) : u = a \o e
      BY <2>1
    <3>2. u \o <<>> = u
      BY ConcatEmptySeq
    <3> QED BY <3>1, <3>2
  <2> QED BY <1>2, <2>1, <2>2
<1>4. CASE thread = "add" /\ e # <<>>
  <2>1. Entries = a \o SubSeq(e, 1, Len(e) - 1)
    BY <1>2, <1>4 DEF Entries, Reserved
  <2>2. e[Len(e)] \in Ids /\ a \o e = Entries \o <<e[Len(e)]>>
    BY <1>4, <2>1, SplitLast
  <2>3. <<e[Len(e)]>> \in Seq(Ids)
    BY <2>2
  <2> QED BY <1>2, <2>2, <2>3
<1>5. CASE thread = "add" /\ e = <<>>
  <2>1. SubSeq(<<>>, 1, Len(<<>>) - 1) = <<>> /\ <<>> \in Seq(Ids)
    <3>1. Len(<<>>) = 0 /\ <<>> \in Seq(Ids)
      OBVIOUS
    <3>2. SubSeq(<<>>, 1, -1) = <<>>
      BY SubSeqEmpty
    <3>3. Len(<<>>) - 1 = -1
      BY <3>1
    <3> QED BY <3>1, <3>2, <3>3
  <2>2. Entries = a \o <<>>
    BY <1>2, <1>5, <2>1 DEF Entries, Reserved
  <2>3. a \o <<>> = a
    BY ConcatEmptySeq
  <2> QED BY <1>2, <1>5, <2>1, <2>2, <2>3
<1> QED BY <1>3, <1>4, <1>5

\* The head and the tail of d \o x.
LEMMA JoinParts ==
    ASSUME NEW d \in Seq(Ids), NEW x \in Seq(Ids), NEW t, t = d \o x, t # <<>>
    PROVE  /\ d # <<>> => Head(t) = Head(d) /\ Tail(t) = Tail(d) \o x /\ Tail(d) \in Seq(Ids)
           /\ d = <<>> => Tail(t) = <<>> \o Tail(x) /\ Tail(x) \in Seq(Ids)
<1>1. CASE d = <<>>
  <2>1. t = x
    BY <1>1, ConcatEmptySeq
  <2>2. Tail(x) \in Seq(Ids)
    BY <2>1, HeadTailProperties
  <2>3. <<>> \o Tail(x) = Tail(x)
    BY <2>2, ConcatEmptySeq
  <2> QED BY <1>1, <2>1, <2>2, <2>3
<1>2. CASE d # <<>>
  <2>1. t \in Seq(Ids) /\ Len(t) = Len(d) + Len(x) /\ Len(d) \in Nat /\ Len(x) \in Nat
    BY ConcatProperties
  <2>2. \A i \in 1 .. Len(d) + Len(x) : t[i] = IF i <= Len(d) THEN d[i] ELSE x[i - Len(d)]
    BY ConcatProperties
  <2>3. Len(d) > 0
    BY <1>2
  <2>4. Head(t) = Head(d)
    <3>1. t[1] = d[1]
      BY <2>1, <2>2, <2>3
    <3> QED BY <1>2, <3>1
  <2>5. PICK h \in Seq(Ids) : h = Tail(d)
    BY <1>2, HeadTailProperties
  <2>6. Len(h) = Len(d) - 1 /\ \A i \in 1 .. Len(h) : h[i] = d[i + 1]
    BY <1>2, <2>5, HeadTailProperties
  <2>7. PICK u \in Seq(Ids) : u = h \o x
    BY ConcatProperties
  <2>8. /\ Len(u) = Len(h) + Len(x)
        /\ \A i \in 1 .. Len(h) + Len(x) : u[i] = IF i <= Len(h) THEN h[i] ELSE x[i - Len(h)]
    BY <2>7, ConcatProperties
  <2>9. PICK v \in Seq(Ids) : v = Tail(t)
    BY <2>1, HeadTailProperties
  <2>10. Len(v) = Len(t) - 1 /\ \A i \in 1 .. Len(v) : v[i] = t[i + 1]
    BY <2>1, <2>9, HeadTailProperties
  <2>11. ASSUME NEW i \in 1 .. Len(v) PROVE v[i] = u[i]
    <3>1. i \in Nat /\ i + 1 \in 1 .. Len(d) + Len(x) /\ i \in 1 .. Len(h) + Len(x)
      BY <2>1, <2>3, <2>6, <2>10
    <3>2. v[i] = IF i + 1 <= Len(d) THEN d[i + 1] ELSE x[(i + 1) - Len(d)]
      BY <2>2, <2>10, <3>1
    <3>3. u[i] = IF i <= Len(h) THEN h[i] ELSE x[i - Len(h)]
      BY <2>8, <3>1
    <3>4. CASE i <= Len(h)
      <4>1. i + 1 <= Len(d) /\ i \in 1 .. Len(h)
        BY <2>1, <2>6, <3>1, <3>4
      <4>2. h[i] = d[i + 1]
        BY <2>6, <4>1
      <4> QED BY <3>2, <3>3, <3>4, <4>1, <4>2
    <3>5. CASE ~(i <= Len(h))
      <4>1. ~(i + 1 <= Len(d)) /\ (i + 1) - Len(d) = i - Len(h)
        BY <2>1, <2>6, <3>1, <3>5
      <4> QED BY <3>2, <3>3, <3>5, <4>1
    <3> QED BY <3>4, <3>5
  <2>12. Len(v) = Len(u)
    BY <2>1, <2>3, <2>6, <2>8, <2>10
  <2>13. v = u
    BY <2>11, <2>12, SeqEqual
  <2> QED BY <1>2, <2>4, <2>5, <2>7, <2>9, <2>13
<1> QED BY <1>1, <1>2

\* One entry less is to be stored.
LEMMA RestTail ==
    ASSUME NEW e \in Seq(Ids), NEW t \in Seq(Ids), t # <<>>, Rest(e, t)
    PROVE  /\ Rest(e, Tail(t)) /\ Blocks[Head(t)] \in Nat
           /\ SizeOfLast(e)[Len(t)] \in Nat /\ SizeOfLast(e)[Len(Tail(t))] \in Nat
           /\ SizeOfLast(e)[Len(t)] = Blocks[Head(t)] + AteSize + SizeOfLast(e)[Len(Tail(t))]
<1>1. /\ Len(e) \in Nat /\ Len(t) \in Nat /\ Len(t) > 0 /\ Len(Tail(t)) = Len(t) - 1
      /\ \A i \in 1 .. Len(t) - 1 : Tail(t)[i] = t[i + 1]
      /\ Head(t) = t[1] /\ t[1] \in Ids
  OBVIOUS
<1>2. Len(t) <= Len(e) /\ \A i \in 1 .. Len(t) : t[i] = e[Len(e) - Len(t) + i]
  BY DEF Rest
<1>3. \A i \in 1 .. Len(t) - 1 : t[i + 1] = e[Len(e) - (Len(t) - 1) + i]
  <2> SUFFICES ASSUME NEW i \in 1 .. Len(t) - 1 PROVE t[i + 1] = e[Len(e) - (Len(t) - 1) + i]
    OBVIOUS
  <2>1. i + 1 \in 1 .. Len(t) /\ Len(e) - Len(t) + (i + 1) = Len(e) - (Len(t) - 1) + i
    BY <1>1
  <2> QED BY <1>2, <2>1
<1>4. Rest(e, Tail(t))
  BY <1>1, <1>2, <1>3 DEF Rest
<1>5. t[1] = e[Len(e) - Len(t) + 1]
  BY <1>1, <1>2
<1>6. Len(t) \in 1 .. Len(e) /\ Len(t) \in 0 .. Len(e) /\ Len(t) - 1 \in 0 .. Len(e)
  BY <1>1, <1>2
<1>7. /\ SizeOfLast(e)[Len(t)] = Blocks[Head(t)] + AteSize + SizeOfLast(e)[Len(t) - 1]
      /\ SizeOfLast(e)[Len(t)] \in Nat /\ SizeOfLast(e)[Len(t) - 1] \in Nat
  BY <1>1, <1>5, <1>6, SizeSteps
<1>8. Blocks[Head(t)] \in Nat
  BY <1>1, Sizes
<1> QED BY <1>1, <1>4, <1>7, <1>8

\* An entry that is skipped for want of data, or has its ATE, is covered.
LEMMA CoveredTail ==
    ASSUME NEW f, NEW g, NEW t \in Seq(Ids), t # <<>>, Covered(f, t),
           \A id \in Ids : HasAte(f, id) => HasAte(g, id),
           Blocks[Head(t)] = 0 \/ HasAte(g, Head(t)), Promised \subseteq Ids
    PROVE  Covered(g, Tail(t))
<1> SUFFICES ASSUME NEW id \in Promised, Blocks[id] > 0, ~HasAte(g, id)
             PROVE  \E i \in DOMAIN Tail(t) : Tail(t)[i] = id
  BY DEF Covered
<1>1. id \in Ids /\ ~HasAte(f, id) /\ Blocks[id] # 0
  BY Sizes
<1>2. PICK i \in DOMAIN t : t[i] = id
  BY <1>1 DEF Covered
<1>3. i # 1
  <2>1. CASE i = 1
    <3>1. Head(t) = id
      BY <1>2, <2>1
    <3> QED BY <1>1, <3>1
  <2> QED BY <2>1
<1>4. i - 1 \in DOMAIN Tail(t) /\ Tail(t)[i - 1] = t[i]
  BY <1>2, <1>3
<1> QED BY <1>2, <1>4

\* Every entry that there is room for is among the reserved ones.
LEMMA PromisedListed ==
    ASSUME EmdsTypeOK
    PROVE  /\ Entries \in Seq(Ids) /\ Promised \subseteq Ids
           /\ \A id \in Promised : \E i \in DOMAIN Entries : Entries[i] = id
<1>1. Static \in Seq(Ids) /\ Reserved \in Seq(Ids) /\ Promised \subseteq Ids
  BY IdTypes, ReservedType
<1>2. PICK a \in Seq(Ids), e \in Seq(Ids) : a = Static /\ e = Reserved
  BY <1>1
<1>3. Entries = a \o e /\ a \o e \in Seq(Ids)
  BY <1>2 DEF Entries
<1>4. ASSUME NEW id \in Promised
      PROVE  \E i \in DOMAIN (a \o e) : (a \o e)[i] = id
  <2>1. CASE \E i \in DOMAIN a : id = a[i]
    BY <2>1
  <2>2. CASE \E i \in DOMAIN e : id = e[i]
    <3>1. PICK i \in DOMAIN e : id = e[i]
      BY <2>2
    <3>2. i + Len(a) \in DOMAIN (a \o e) /\ (a \o e)[i + Len(a)] = id
      BY <3>1
    <3> QED BY <3>2
  <2> QED BY <1>2, <1>4, <2>1, <2>2 DEF Promised
<1> QED BY <1>1, <1>3, <1>4

\* Once the entries there is room for are stored, they stay so.
LEMMA CoverNone ==
    ASSUME NEW x \in Seq(Ids), NEW y \in Seq(Ids), Cover(<<>>, x), todo' = <<>> \o y,
           Entries' = Entries, Promised' = Promised, Promised \subseteq Ids, Entries \in Seq(Ids),
           NEW g, g = flash', \A id \in Ids : HasAte(flash, id) => HasAte(g, id)
    PROVE  CoverInv'
<1>1. Rest(Entries, <<>>)
  BY DEF Rest
<1>2. Covered(flash, <<>>)
  BY DEF Cover
<1>3. Covered(flash, <<>>)'
  BY <1>2 DEF Covered
<1>4. Cover(<<>>, y)'
  BY <1>1, <1>3 DEF Cover
<1>5. <<>> \in Seq(Ids)
  OBVIOUS
<1> QED BY <1>4, <1>5 DEF CoverInv

\* Every step preserves that the entries are covered and that there is room
\* for those left, so that emds_flash_write refuses none of them.
LEMMA CoverStep ==
    ASSUME SoundArea, TypeInv, GapInv, FitsInv, AtesInv, CoverInv, [EmdsNext]_emds_vars
    PROVE  CoverInv'
<1> DEFINE aw == fs.ate_wra
           dw == fs.data_wra_offset
           L == Blocks[Entry]
<1>0. /\ FlashInv /\ ReadyInv /\ StoreInv /\ EmdsTypeOK /\ StoreGap /\ ReadyInitialized
      /\ flash \in Flash /\ fs \in FsType /\ aw \in Int /\ dw \in Nat /\ block \in Nat
      /\ todo \in Seq(Ids) /\ Entries \in Seq(Ids) /\ Promised \subseteq Ids
  BY Sizes, PromisedListed DEF AtesInv, TypeInv, EmdsTypeOK, Flash, FsType, GapInv
<1>1. CASE \E emergency \in BOOLEAN : emds_store(emergency)
  <2>1. /\ UNCHANGED <<flash, fs, emds_dynamic_entries, thread>> /\ isr = "off" /\ emds_ready
        /\ block' = 0 /\ todo' = Static \o emds_dynamic_entries
    BY <1>1 DEF emds_store, flash_vars, call_vars
  <2>2. Entries' = Entries /\ Promised' = Promised
    BY <2>1, ReservedSame DEF Entries
  <2>3. PICK e \in Seq(Ids) : e = Entries
    BY <1>0
  <2>4. Rest(e, e)
    BY DEF Rest
  <2>5. Covered(flash, e)
    BY <1>0, <2>3, PromisedListed DEF Covered
  <2>6. ASSUME e # <<>> PROVE SizeOfLast(e)[Len(e)] - 0 <= aw - dw
    <3>1. SizeOfLast(e)[Len(e)] <= emds_flash_free_space_get(fs)
      BY <1>0, <2>1, <2>3 DEF FitsInv, emds_entries_size, Entries
    <3>2. PICK n : n = SizeOfLast(e)[Len(e)]
      OBVIOUS
    <3>3. n \in Nat /\ n > 0
      <4>1. PICK l \in Nat, k \in Nat : SizeOfLast(e)[Len(e)] = l + AteSize + k
        BY <2>4, <2>6, RestTail
      <4> QED
        BY <3>2, <4>1, Sizes
    <3>4. n - 0 <= aw - dw
      BY <1>0, <3>1, <3>2, <3>3, Sizes DEF emds_flash_free_space_get
    <3> QED BY <3>2, <3>4
  <2>7. Taken' = 0
    BY <2>1 DEF Taken
  <2>8. Covered(flash, e)'
    BY <2>1, <2>2, <2>5 DEF Covered
  <2>9. PICK x \in Seq(Ids) : Static \o emds_dynamic_entries = Entries \o x
    BY <1>0, StoreSplit
  <2>10. Cover(e, x)'
    BY <2>1, <2>2, <2>3, <2>4, <2>6, <2>7, <2>8, <2>9 DEF Cover
  <2> QED BY <2>10 DEF CoverInv
<1> DEFINE Left(t) == SizeOfLast(Entries)[Len(t)]
<1>2. ASSUME isr \in {"planned", "last"}, todo # <<>>
      PROVE  L \in Nat /\ Entry \in Ids /\ emds_initialized /\ fs.is_prepeared
  <2>1. emds_initialized /\ fs.is_prepeared
    BY <1>0, <1>2 DEF StoreInv, ReadyInv, ReadyInitialized
  <2> QED BY <1>0, <1>2, <2>1, EntryType DEF StoreRuns
<1>9. ASSUME isr \in {"planned", "last"}, todo # <<>>, NEW d \in Seq(Ids), NEW x \in Seq(Ids),
             Cover(d, x), d # <<>>
      PROVE  /\ Rest(Entries, d) /\ Covered(flash, d) /\ Left(d) - Taken <= aw - dw
             /\ Rest(Entries, Tail(d)) /\ Left(d) \in Nat /\ Left(Tail(d)) \in Nat
             /\ Left(d) = L + AteSize + Left(Tail(d))
             /\ Head(d) = Entry /\ Tail(todo) = Tail(d) \o x /\ Tail(d) \in Seq(Ids)
  <2>1. /\ todo = d \o x /\ Rest(Entries, d) /\ Covered(flash, d)
        /\ Left(d) - Taken <= aw - dw
    BY <1>9 DEF Cover
  <2>2. Head(d) = Entry /\ Tail(todo) = Tail(d) \o x /\ Tail(d) \in Seq(Ids)
    BY <1>9, <2>1, JoinParts DEF Entry
  <2>3. PICK e \in Seq(Ids) : e = Entries
    BY <1>0
  <2>4. /\ Rest(e, Tail(d)) /\ SizeOfLast(e)[Len(d)] \in Nat /\ SizeOfLast(e)[Len(Tail(d))] \in Nat
        /\ SizeOfLast(e)[Len(d)] = Blocks[Head(d)] + AteSize + SizeOfLast(e)[Len(Tail(d))]
    BY <1>9, <2>1, <2>3, RestTail
  <2> QED BY <2>1, <2>2, <2>3, <2>4
<1>10. ASSUME isr \in {"planned", "last"}
       PROVE  \E d \in Seq(Ids), x \in Seq(Ids) : Cover(d, x)
  BY <1>10 DEF CoverInv
<1>11. ASSUME todo # <<>>, NEW x \in Seq(Ids), Cover(<<>>, x)
       PROVE  Tail(todo) = <<>> \o Tail(x) /\ Tail(x) \in Seq(Ids)
  <2>1. todo = <<>> \o x /\ <<>> \in Seq(Ids)
    BY <1>11 DEF Cover
  <2> QED BY <1>11, <2>1, JoinParts
<1> HIDE DEF Left
<1>3. CASE StoreSkips
  <2>1. /\ UNCHANGED <<flash, fs, emds_dynamic_entries, thread, isr>> /\ isr \in {"planned", "last"}
        /\ todo # <<>> /\ block = 0 /\ block' = 0 /\ todo' = Tail(todo) /\ Refuses
    BY <1>3 DEF StoreSkips, Storing, NextEntry, flash_vars, call_vars
  <2>2. Entries' = Entries /\ Promised' = Promised /\ Taken = 0 /\ Taken' = 0
    BY <2>1, ReservedSame DEF Entries, Taken
  <2>3. PICK d \in Seq(Ids), x \in Seq(Ids) : Cover(d, x)
    BY <1>10, <2>1
  <2>4. CASE d = <<>>
    <3>1. todo' = <<>> \o Tail(x) /\ Tail(x) \in Seq(Ids) /\ Cover(<<>>, x)
      BY <1>11, <2>1, <2>3, <2>4
    <3> QED BY <1>0, <2>1, <2>2, <3>1, CoverNone
  <2>5. CASE d # <<>>
    <3>1. /\ Covered(flash, d) /\ Left(d) - 0 <= aw - dw /\ L \in Nat
          /\ Rest(Entries, Tail(d)) /\ Left(d) \in Nat /\ Left(Tail(d)) \in Nat
          /\ Left(d) = L + AteSize + Left(Tail(d))
          /\ Head(d) = Entry /\ Tail(todo) = Tail(d) \o x /\ Tail(d) \in Seq(Ids)
          /\ emds_initialized /\ fs.is_prepeared
      BY <1>2, <1>9, <2>1, <2>2, <2>3, <2>5
    <3>2. L = 0
      <4>1. CASE L > 0
        <5>1. aw - dw > AteSize /\ aw - dw >= AteSize + L
          <6> HIDE DEF L
          <6> QED BY <1>0, <3>1, <4>1, Sizes, SMTT(60)
        <5>2. emds_flash_free_space_get(fs) = aw - dw
          BY <5>1 DEF emds_flash_free_space_get
        <5>3. emds_initialized /\ fs.is_prepeared /\ Refuses
          BY <2>1, <3>1
        <5>4. AteSize + L > emds_flash_free_space_get(fs) \/ L = 0
          BY <5>3 DEF Refuses
        <5>5. ~(AteSize + L > aw - dw)
          <6>1. L \in Nat
            BY <3>1
          <6> HIDE DEF L
          <6> QED BY <1>0, <5>1, <6>1, Sizes
        <5> QED BY <5>2, <5>4, <5>5, Zenon
      <4>2. PICK l \in Nat : l = L
        BY <3>1
      <4>3. ~(l > 0)
        <5>1. ~(l > 0) \/ l = 0
          BY <4>1, <4>2
        <5> QED BY <4>2, <5>1
      <4> QED BY <4>2, <4>3
    <3>3. Covered(flash, Tail(d))
      BY <1>0, <2>5, <3>1, <3>2, CoveredTail
    <3>4. Covered(flash, Tail(d))'
      BY <2>1, <2>2, <3>3 DEF Covered
    <3>5. Left(Tail(d)) - 0 <= aw - dw
      <4> HIDE DEF L
      <4> QED BY <1>0, <3>1, Sizes, SMTT(60)
    <3>6. Cover(Tail(d), x)'
      BY <2>1, <2>2, <3>1, <3>4, <3>5 DEF Cover, Left
    <3> QED BY <3>1, <3>6 DEF CoverInv
  <2> QED BY <2>4, <2>5
<1>4. CASE data_wrt
  <2>1. /\ UNCHANGED <<emds_dynamic_entries, thread, isr, todo>> /\ isr \in {"planned", "last"}
        /\ todo # <<>> /\ block' = block + 1
    BY <1>4 DEF data_wrt, Storing, call_vars
  <2>2. Entries' = Entries /\ Promised' = Promised /\ Entry' = Entry
    BY <2>1, ReservedSame DEF Entries, Entry
  <2>3. /\ block < L /\ dw + block \in Addresses /\ AteSize + L <= aw - dw
        /\ flash' = [flash EXCEPT ![dw + block] = Program(@, DataBlock(Entry, ram[Entry], block))]
    BY <1>0, <1>4, DataPlace
  <2>4. fs'.ate_wra = aw /\ fs'.data_wra_offset = IF block + 1 = L THEN dw + L ELSE dw
    BY <1>0, <1>4 DEF data_wrt, FsType
  <2>5. PICK g : g = flash'
    OBVIOUS
  <2>6. \A id \in Ids : HasAte(flash, id) => HasAte(g, id)
    <3> SUFFICES ASSUME NEW a \in Valid(flash) PROVE a \in Valid(g) /\ g[a] = flash[a]
      BY DEF HasAte
    <3>1. a \in AteAddrs /\ a > aw /\ a \in Nat
      BY <1>0, <2>1, AtePlaces DEF StoreInv, Valid
    <3>2. \A u \in Words : g[a + u] = flash[a + u]
      <4> SUFFICES ASSUME NEW u \in Words PROVE g[a + u] = flash[a + u]
        OBVIOUS
      <4>1. a + u \in Addresses /\ u \in Nat
        BY <3>1, AtePlaces
      <4>2. a + u # dw + block
        <5>1. L \in Nat
          BY <1>2, <2>1
        <5> HIDE DEF L
        <5> QED BY <1>0, <2>3, <3>1, <4>1, <5>1, Sizes
      <4> QED BY <1>0, <2>3, <2>5, <4>1, <4>2 DEF Flash
    <3>3. g[a] = flash[a] /\ (a \in Valid(g) <=> a \in Valid(flash))
      BY <3>1, <3>2, SamePlace
    <3> QED BY <3>3
  <2>7. PICK d \in Seq(Ids), x \in Seq(Ids) : Cover(d, x)
    BY <1>10, <2>1
  <2>8. todo' = d \o x /\ Rest(Entries, d) /\ Covered(flash, d)
    BY <2>1, <2>7 DEF Cover
  <2>9. CASE d = <<>>
    <3>1. todo' = <<>> \o x /\ Cover(<<>>, x)
      BY <2>7, <2>8, <2>9
    <3> QED BY <1>0, <2>2, <2>5, <2>6, <3>1, CoverNone
  <2>10. CASE d # <<>>
    <3>1. Covered(flash, d)'
      BY <1>0, <2>2, <2>5, <2>6, <2>8 DEF Covered
    <3>2. Left(d) - Taken' <= fs'.ate_wra - fs'.data_wra_offset
      <4>1. Taken = 0 /\ Taken' = IF block + 1 >= L THEN L ELSE 0
        BY <1>0, <1>2, <2>1, <2>2, <2>3 DEF Taken
      <4>2. PICK n : n = Taken'
        OBVIOUS
      <4>3. n = IF block + 1 = L THEN L ELSE 0
        BY <1>0, <1>2, <2>1, <2>3, <4>1, <4>2
      <4>4. Left(d) - 0 <= aw - dw /\ Left(d) \in Nat /\ L \in Nat
        BY <1>2, <1>9, <2>1, <2>7, <2>10, <4>1
      <4> HIDE DEF L
      <4> QED BY <1>0, <2>4, <4>2, <4>3, <4>4
    <3>3. Cover(d, x)'
      BY <2>2, <2>8, <3>1, <3>2 DEF Cover, Left
    <3> QED BY <3>3 DEF CoverInv
  <2> QED BY <2>9, <2>10
<1>5. CASE ate_wrt
  <2>1. /\ UNCHANGED <<emds_dynamic_entries, thread, isr>> /\ isr \in {"planned", "last"} /\ todo # <<>>
        /\ IF block - L + 1 < AteSize
           THEN block' = block + 1 /\ UNCHANGED <<fs, todo>>
           ELSE /\ fs' = [fs EXCEPT !.ate_wra = @ - AteSize]
                /\ todo' = Tail(todo) /\ block' = 0
    BY <1>5 DEF ate_wrt, Storing, NextEntry, call_vars
  <2>2. Entries' = Entries /\ Promised' = Promised
    BY <2>1, ReservedSame DEF Entries
  <2>3. PICK g : g = flash'
    OBVIOUS
  <2>4. /\ block > 0 /\ block >= L /\ Taken = L
        /\ \A id \in Ids : HasAte(flash, id) => HasAte(g, id)
        /\ ~(block - L + 1 < AteSize) => HasAte(g, Entry)
    <3>1. block > 0 /\ block >= L /\ block - L \in Words
      BY <1>0, <1>5, AtePlace
    <3>2. PICK at : at = dw - L
      OBVIOUS
    <3>3. AteStep(flash, g, aw, block - L, Entry, stores, at, L)
      BY <1>5, <2>3, <3>2, AteStepOf
    <3>4. /\ \A a \in Valid(flash) : a \in Valid(g) /\ g[a] = flash[a]
          /\ block - L + 1 = AteSize => aw \in Valid(g) /\ g[aw] = AteBlock(Entry, stores, at, L, 0)
      BY <3>3, AteWritten
    <3>5. ~(block - L + 1 < AteSize) => block - L + 1 = AteSize
      BY <3>1, Sizes DEF Words
    <3> QED BY <3>1, <3>4, <3>5 DEF HasAte, Taken, AteBlock
  <2>5. PICK d \in Seq(Ids), x \in Seq(Ids) : Cover(d, x)
    BY <1>10, <2>1
  <2>6. todo = d \o x /\ Rest(Entries, d) /\ Covered(flash, d)
    BY <2>5 DEF Cover
  <2>7. CASE d = <<>>
    <3>1. Cover(<<>>, x) /\ todo = <<>> \o x
      BY <2>5, <2>6, <2>7
    <3>2. PICK y \in Seq(Ids) : todo' = <<>> \o y
      BY <1>11, <2>1, <3>1
    <3> QED BY <1>0, <2>2, <2>3, <2>4, <3>1, <3>2, CoverNone
  <2>8. CASE d # <<>> /\ block - L + 1 < AteSize
    <3>1. fs' = fs /\ todo' = todo /\ block' = block + 1 /\ Entry' = Entry
      BY <2>1, <2>8 DEF Entry
    <3>2. Taken' = L
      BY <1>0, <1>2, <2>1, <2>4, <3>1 DEF Taken
    <3>3. Covered(flash, d)'
      BY <1>0, <2>2, <2>3, <2>4, <2>6 DEF Covered
    <3>4. Left(d) - L <= aw - dw
      BY <1>9, <2>1, <2>4, <2>5, <2>8
    <3>5. Cover(d, x)'
      BY <2>2, <2>6, <3>1, <3>2, <3>3, <3>4 DEF Cover, Left
    <3> QED BY <3>5 DEF CoverInv
  <2>9. CASE d # <<>> /\ ~(block - L + 1 < AteSize)
    <3>1. fs'.ate_wra = aw - AteSize /\ fs'.data_wra_offset = dw /\ todo' = Tail(todo) /\ block' = 0
      BY <1>0, <2>1, <2>9 DEF FsType
    <3>2. Taken' = 0
      BY <3>1 DEF Taken
    <3>3. /\ Left(d) - L <= aw - dw /\ L \in Nat /\ Rest(Entries, Tail(d))
          /\ Left(d) \in Nat /\ Left(Tail(d)) \in Nat /\ Left(d) = L + AteSize + Left(Tail(d))
          /\ Head(d) = Entry /\ Tail(todo) = Tail(d) \o x /\ Tail(d) \in Seq(Ids)
      BY <1>2, <1>9, <2>1, <2>4, <2>5, <2>9
    <3>4. Covered(g, Tail(d))
      BY <1>0, <2>4, <2>6, <2>9, <3>3, CoveredTail
    <3>5. Covered(flash, Tail(d))'
      BY <2>2, <2>3, <3>4 DEF Covered
    <3>6. Left(Tail(d)) - 0 <= aw - AteSize - dw
      <4>1. PICK m, n, l : m = Left(d) /\ n = Left(Tail(d)) /\ l = L
        OBVIOUS
      <4>2. m - l <= aw - dw /\ l \in Nat /\ m \in Nat /\ n \in Nat /\ m = l + AteSize + n
        BY <3>3, <4>1
      <4>3. n - 0 <= aw - AteSize - dw
        BY <1>0, <4>2, Sizes
      <4> QED BY <4>1, <4>3
    <3>7. Cover(Tail(d), x)'
      BY <2>2, <3>1, <3>2, <3>3, <3>5, <3>6 DEF Cover, Left
    <3> QED BY <3>3, <3>7 DEF CoverInv
  <2> QED BY <2>7, <2>8, <2>9
<1>6. CASE UNCHANGED emds_vars
  <2>1. UNCHANGED <<flash, fs, emds_dynamic_entries, thread, isr, todo, block>>
    BY <1>6 DEF emds_vars, flash_vars, call_vars, store_vars
  <2>2. Entries' = Entries /\ Promised' = Promised
    BY <2>1, ReservedSame DEF Entries
  <2>3. CASE isr \in {"planned", "last"}
    <3>1. PICK d \in Seq(Ids), x \in Seq(Ids) : Cover(d, x)
      BY <1>10, <2>3
    <3>2. Taken' = Taken
      BY <2>1 DEF Taken, Entry
    <3>3. Covered(flash, d)' = Covered(flash, d)
      BY <2>1, <2>2 DEF Covered
    <3>4. Cover(d, x)'
      BY <2>1, <2>2, <3>1, <3>2, <3>3 DEF Cover
    <3> QED BY <3>4 DEF CoverInv
  <2>4. CASE isr \notin {"planned", "last"}
    BY <2>1, <2>4 DEF CoverInv
  <2> QED BY <2>3, <2>4
<1>7. CASE \/ emds_init \/ (\E id \in DynamicIds : emds_entry_add(id)) \/ EntryAddReturns \/ emds_load
           \/ emds_prepare \/ old_entries_invalidate \/ InvalidateFails \/ emds_flash_prepare
           \/ emds_clear \/ EraseSector \/ emds_flash_clear \/ EraseFails
  <2>1. isr' = "off"
    BY <1>7 DEF emds_init, emds_entry_add, EntryAddReturns, emds_load, emds_prepare,
       old_entries_invalidate, InvalidateFails, emds_flash_prepare, emds_clear, EraseSector,
       emds_flash_clear, EraseFails, EraseReturns, MayDelete, CallBegins, ThreadAt, store_vars
  <2> QED BY <2>1 DEF CoverInv
<1>8. CASE StoreReturns \/ PowerLoss
  <2>1. isr' \in {"off", "halted"}
    BY <1>8 DEF StoreReturns, PowerLoss
  <2> QED BY <2>1 DEF CoverInv
<1> QED BY <1>1, <1>3, <1>4, <1>5, <1>6, <1>7, <1>8 DEF EmdsNext

-----------------------------------------------------------------------------
(* From the end of a store until its data are deleted, every entry that it *)
(* stored has a valid ATE, and nothing is written.                         *)
StoredInv ==
    stored # {} =>
        /\ thread \in {"idle", "add"} /\ ~clear_cut /\ isr \in {"off", "halted"}
        /\ \A id \in stored : HasAte(flash, id)

\* Then a load after any restart reads what the store wrote: the walk of
\* ate_last_recover stops below every ATE.
LEMMA StoredLoads ==
    ASSUME TypeInv, AtesInv, StoredInv
    PROVE  StoredIsLoaded
<1> SUFFICES ASSUME NEW id \in stored, NEW s \in ate_last_recover(flash, EmptyFs)
             PROVE  emds_flash_read(flash, s, id) = stores
  BY DEF StoredIsLoaded
<1> DEFINE found == {a \in Valid(flash) : a >= s.ate_wra /\ flash[a].id = id}
<1>0. flash \in Flash /\ FlashInv /\ EmptyFs \in FsType
  BY Sizes DEF TypeInv, EmdsTypeOK, Flash, AtesInv, EmptyFs, FsType
<1>1. s \in FsType
  BY <1>0, RecoverType DEF Flash
<1>2. PICK a \in Valid(flash) : flash[a].id = id
  BY DEF StoredInv, HasAte
<1>3. \E e \in AteAddrs : e \in Blanks(flash)
  BY <1>0, <1>2 DEF FlashInv, Mark
<1>4. s.ate_wra \in Blanks(flash)
  BY <1>0, <1>3, RecoverBlank
<1>5. a \in AteAddrs /\ a \in Addresses /\ a \in Nat
  BY AtePlaces DEF Valid
<1>6. flash[a].kind = "ate"
  BY <1>2, <1>5, Checked
<1>7. a >= s.ate_wra + AteSize /\ s.ate_wra \in Int
  BY <1>0, <1>1, <1>4, <1>5, <1>6, Sizes DEF FlashInv, FsType
<1>8. a \in found
  BY <1>2, <1>5, <1>7, Sizes
<1>9. PICK b \in found :
        emds_flash_read(flash, s, id) = IF Holds(flash, b) THEN flash[b].store ELSE Clobbered
  BY <1>0, <1>1, <1>8, ReadNewest
<1>10. Kept
  BY DEF StoredInv, Kept
<1>11. flash[b].store = stores /\ Holds(flash, b)
  BY <1>0, <1>10 DEF FlashInv
<1> QED BY <1>9, <1>11

\* Every step preserves it.
LEMMA StoredStep ==
    ASSUME TypeInv, AtesInv, CoverInv, StoredInv, [EmdsNext]_emds_vars
    PROVE  StoredInv'
<1>1. ASSUME stored' = {} PROVE StoredInv'
  BY <1>1 DEF StoredInv
<1>2. ASSUME UNCHANGED <<flash, stored>>, stored' # {} => thread' \in {"idle", "add"} /\ isr' \in {"off", "halted"},
             stored' # {} => ~clear_cut'
      PROVE  StoredInv'
  BY <1>2 DEF StoredInv
<1>3. CASE emds_prepare \/ emds_clear \/ \E emergency \in BOOLEAN : emds_store(emergency)
  <2>1. stored' = {}
    BY <1>3 DEF emds_prepare, emds_clear, emds_store
  <2> QED BY <1>1, <2>1
<1>4. CASE emds_init \/ (\E id \in DynamicIds : emds_entry_add(id)) \/ EntryAddReturns \/ emds_load
  <2>1. UNCHANGED <<flash, stored, isr, clear_cut>> /\ (thread' = thread \/ thread' \in {"idle", "add"})
    BY <1>4 DEF emds_init, emds_entry_add, EntryAddReturns, emds_load, flash_vars, call_vars,
       store_vars, ghost_vars
  <2> QED BY <1>2, <2>1 DEF StoredInv
<1>5. CASE \/ old_entries_invalidate \/ InvalidateFails \/ emds_flash_prepare \/ EraseSector
           \/ emds_flash_clear \/ EraseFails
  <2>1. thread \notin {"idle", "add"}
    BY <1>5 DEF old_entries_invalidate, InvalidateFails, emds_flash_prepare, EraseSector,
       emds_flash_clear, EraseFails, EraseReturns, ThreadAt
  <2>2. stored' = stored
    BY <1>5 DEF old_entries_invalidate, InvalidateFails, emds_flash_prepare, EraseSector,
       emds_flash_clear, EraseFails, ghost_vars
  <2> QED BY <1>1, <2>1, <2>2 DEF StoredInv
<1>6. CASE StoreSkips \/ data_wrt \/ ate_wrt
  <2>1. isr \in {"planned", "last"}
    BY <1>6 DEF StoreSkips, data_wrt, ate_wrt, Storing
  <2>2. stored' = stored
    BY <1>6 DEF StoreSkips, data_wrt, ate_wrt, ghost_vars
  <2> QED BY <1>1, <2>1, <2>2 DEF StoredInv
<1>7. CASE StoreReturns
  <2>1. /\ UNCHANGED <<flash, thread, clear_cut>> /\ isr' \in {"off", "halted"}
        /\ isr \in {"planned", "last"} /\ todo = <<>>
        /\ stored' = {id \in Promised : Blocks[id] > 0}
    BY <1>7 DEF StoreReturns, flash_vars, call_vars
  <2>2. thread \in {"idle", "add"} /\ ~clear_cut
    BY <2>1 DEF AtesInv, StoreInv, ReadyInv
  <2>3. PICK d \in Seq(Ids), x \in Seq(Ids) : d \o x = <<>> /\ Covered(flash, d)
    BY <2>1 DEF CoverInv, Cover
  <2>4. d = <<>>
    BY <2>3, ConcatEqualIffEmpty
  <2>5. DOMAIN d = {}
    BY <2>4
  <2>6. \A id \in stored' : HasAte(flash, id)
    BY <2>1, <2>3, <2>5 DEF Covered
  <2> QED BY <2>1, <2>2, <2>6 DEF StoredInv
<1>8. CASE PowerLoss
  <2>1. /\ UNCHANGED <<flash, stored>> /\ thread' = "idle" /\ isr' = "off"
        /\ clear_cut' = (clear_cut \/ thread = "clear")
    BY <1>8 DEF PowerLoss
  <2>2. stored' # {} => ~clear_cut'
    BY <2>1 DEF StoredInv
  <2> QED BY <1>2, <2>1, <2>2
<1>9. CASE UNCHANGED emds_vars
  BY <1>9 DEF emds_vars, StoredInv
<1> QED BY <1>3, <1>4, <1>5, <1>6, <1>7, <1>8, <1>9 DEF EmdsNext

(* What a complete store has saved is what a load reads, after any number  *)
(* of power losses and restarts, until emds_prepare or emds_clear deletes  *)
(* it: no entry is refused for want of space, no ATE is hidden below the   *)
(* place where ate_last_recover stops, and no data are overwritten.        *)
THEOREM EmdsStoredIsLoaded ==
    ASSUME RoomyArea, DeleteUse, CleanStart
    PROVE  EmdsSpec => []StoredIsLoaded
<1>1. EmdsSpec => []TypeInv
  BY TypeInit, TypeStep, PTL DEF EmdsSpec
<1> DEFINE Inv == GapInv /\ FitsInv /\ AtesInv /\ CoverInv /\ StoredInv
<1>2. EmdsInit => Inv
  <2>1. EmdsInit => FitsInv /\ CoverInv /\ StoredInv
    BY DEF EmdsInit, FitsInv, CoverInv, StoredInv
  <2> QED BY <2>1, GapInit, AtesInit
<1>3. TypeInv /\ Inv /\ [EmdsNext]_emds_vars => Inv'
  BY GapStep, FitsStep, AtesStep, CoverStep, StoredStep DEF RoomyArea
<1>4. TypeInv /\ Inv => StoredIsLoaded
  BY StoredLoads
<1> QED BY <1>1, <1>2, <1>3, <1>4, PTL DEF EmdsSpec
=============================================================================
