----------------------------- MODULE BlStorage -----------------------------
(***************************************************************************)
(* The bootloader storage (subsys/bootloader/bl_storage): words of one-     *)
(* time programmable memory that keep the slots of the monotonic version    *)
(* counter and one invalidation token for each provisioned public key.      *)
(* A word is written in one step; what is lost on a power loss is the rest   *)
(* of a sequence of writes.  A counter slot is modelled by the value the    *)
(* code reads from it (stored inverted, so an erased slot reads 0).         *)
(***************************************************************************)
EXTENDS Integers, FiniteSets, FiniteSetsExt

CONSTANTS
    NumKeys,          \* num_public_keys: the keys are 0 .. NumKeys - 1
    NumCounterSlots,  \* CONFIG_SB_NUM_VER_COUNTER_SLOTS
    CounterMod        \* values of a counter_t (2^16 in the code)

ASSUME BlStorageAssumption ==
    /\ NumKeys \in Nat \ {0}
    /\ NumCounterSlots \in Nat
    /\ NumCounterSlots % 2 = 0
    /\ CounterMod \in Nat \ {0, 1}

VARIABLES
    counter,   \* counter_slots[]: what each slot reads
    keyValid   \* key_data[].valid holds VALID_VAL

blStorageVars == <<counter, keyValid>>

Keys == 0 .. NumKeys - 1
CounterSlots == 1 .. NumCounterSlots

\* The slots before the first erased one: get_counter stops there.
WrittenSlots == {i \in CounterSlots : \A j \in 1 .. i : counter[j] # 0}

\* get_counter: the highest value of the slots in use.
get_monotonic_counter == Max({counter[i] : i \in WrittenSlots} \cup {0})

\* get_counter: the first erased slot, none when all are in use (-ENOMEM).
FreeSlots == {i \in CounterSlots : counter[i] = 0 /\ \A j \in 1 .. i - 1 : j \in WrittenSlots}

\* set_monotonic_counter: the value must grow and a slot must be left; the
\* errors -EINVAL and -ENOMEM leave the memory as it is.
set_monotonic_counter(new) ==
    counter' = IF new <= get_monotonic_counter
               THEN counter
               ELSE [i \in CounterSlots |-> IF i \in FreeSlots THEN new ELSE counter[i]]

\* key_is_valid, for a key index the image's public key may match.
key_is_valid(k) == k \in Keys /\ keyValid[k]

invalidate_public_key(k) == keyValid' = [keyValid EXCEPT ![k] = FALSE]

BlStorageInit ==
    /\ counter = [i \in CounterSlots |-> 0]
    /\ keyValid = [k \in Keys |-> TRUE]

BlStorageTypeOK ==
    /\ counter \in [CounterSlots -> 0 .. CounterMod - 1]
    /\ keyValid \in [Keys -> BOOLEAN]
=============================================================================
